---- MODULE Spec2Model ----
(***************************************************************************)
(* Model of the Trading-Analyzer data-to-metrics pipeline:                 *)
(*   models/stock.py       Stock (quote snapshot)                          *)
(*   models/portfolio.py   Portfolio (holding aggregate)                   *)
(*   api/data_fetcher.py   DataFetcher (sequential fetch)                  *)
(*   api/async_fetcher.py  AsyncFetcher (concurrent fetch, refresh)        *)
(*                                                                         *)
(* Conventions.                                                            *)
(*  - Optional[T] is None or Some(x).                                      *)
(*  - A call's outcome is None, Some(x) or Raised(exception name).         *)
(*  - A symbol is a sequence of one-character strings, so that             *)
(*    str.upper() is computed character by character.                      *)
(*  - Prices are integers.  A percentage rounded by round(x, 2) is the     *)
(*    integer number of hundredths of a percent (10.0 % is 1000).          *)
(*  - datetime.now() is a clock that advances at every reading.            *)
(***************************************************************************)
EXTENDS Integers, Sequences, FiniteSets, TLC

VARIABLES
    stock,      \* a stand-alone Stock object
    stocks,     \* Portfolio.stocks: the list of holdings
    clock,      \* the last value read from datetime.now()
    op,         \* the last call that returned (none while one is running)
    ret,        \* what that call returned
    pc,         \* position of the batch fetch in progress
    symbols,    \* the batch's input list of symbols
    api,        \* the backing data source: symbol -> yfinance response
    results,    \* per-task outcome slots of asyncio.gather
    order,      \* the order in which the concurrent tasks completed
    syncI,      \* fetch_multiple_stocks_sync: index of the next symbol
    syncOut,    \* fetch_multiple_stocks_sync: the list `stocks` built so far
    asyncOut,   \* list returned by AsyncFetcher.fetch_multiple_stocks
    self_data,  \* Analyzer.data / TechnicalIndicators.data: the Close column
    connection  \* DatabaseManager.connection: the rows of the two tables

vars == <<stock, stocks, clock, op, ret, pc, symbols, api, results, order,
          syncI, syncOut, asyncOut, self_data, connection>>

(***************************************************************************)
(* Bounds                                                                  *)
(***************************************************************************)
MaxUpdates == 2
MaxStocks == 3
MaxClock == 4
MaxBatch == 2

(***************************************************************************)
(* Values                                                                  *)
(***************************************************************************)
None == [t |-> "None"]

\* no DatabaseManager is open
NoTables == [t |-> "closed"]
Some(x) == [t |-> "val", v |-> x]
Raised(e) == [t |-> "raise", e |-> e]
IsSome(o) == o.t = "val"

Abs(x) == IF x < 0 THEN -x ELSE x

\* str.upper() on one character
UpperChar(c) ==
    CASE c = "a" -> "A"
      [] c = "b" -> "B"
      [] c = "c" -> "C"
      [] OTHER -> c

\* str.upper()
Upper(s) == [i \in 1..Len(s) |-> UpperChar(s[i])]

RawSymbols == { <<"a", "b">>, <<"A", "B">>, <<"c">>, <<"B">> }
\* a name is a string (a sequence of characters) or None
Names == { Some(<<"A", "p", "p", "l", "e">>), Some(<<"a", "p", "l">>) }
AppleName == Some(<<"A", "p", "p", "l", "e">>)

\* Input values of update_price.  110 over 100 is +10 %; 4 over 3 is
\* +33.333... %, 110 over 3 is +3566.666... %: not a whole number of
\* hundredths, rounded down and up.
CurrentPrices == { 4, 110 }
OpeningPrices == { 0, 3, 100 }
Highs == { 120, 130 }
Lows == { 90 }
Volumes == { 1000 }

Opt(S) == {None} \cup { Some(x) : x \in S }

\* round-half-to-even of the rational n / d, d # 0
RoundHalfEven(n, d) ==
    LET nn == IF d < 0 THEN -n ELSE n
        dd == Abs(d)
        q == nn \div dd
        r == nn - q * dd
    IN  IF 2 * r < dd THEN q
        ELSE IF 2 * r > dd THEN q + 1
        ELSE IF q % 2 = 0 THEN q ELSE q + 1

(***************************************************************************)
(* models/stock.py                                                         *)
(***************************************************************************)
\* Stock.__init__ storing the symbol as given, without .upper()
StockInit_keeps_case(symbol, name) ==
    [ symbol |-> symbol,
      name |-> name,
      current_price |-> None,
      opening_price |-> None,
      highest_price |-> None,
      lowest_price |-> None,
      volume |-> None,
      last_update |-> None ]

\* Stock.__init__
StockInit(symbol, name) ==
    [ symbol |-> Upper(symbol),
      name |-> name,
      current_price |-> None,
      opening_price |-> None,
      highest_price |-> None,
      lowest_price |-> None,
      volume |-> None,
      last_update |-> None ]

\* update_price with the "is not None" test on opening dropped
update_price_overwrites_opening(s, new_price, opening, high, low, volume, now) ==
    [ s EXCEPT
        !.current_price = new_price,
        !.opening_price = opening,
        !.highest_price = IF high # None THEN high ELSE @,
        !.lowest_price = IF low # None THEN low ELSE @,
        !.volume = IF volume # None THEN volume ELSE @,
        !.last_update = Some(now) ]

\* Stock.update_price; now is the value datetime.now() returns
update_price(s, new_price, opening, high, low, volume, now) ==
    [ s EXCEPT
        !.current_price = new_price,
        !.opening_price = IF opening # None THEN opening ELSE @,
        !.highest_price = IF high # None THEN high ELSE @,
        !.lowest_price = IF low # None THEN low ELSE @,
        !.volume = IF volume # None THEN volume ELSE @,
        !.last_update = Some(now) ]

\* round(((current - opening) / opening) * 100, 2), in hundredths of a percent
VariationPct(current, opening) ==
    IF opening = 0 THEN Raised("ZeroDivisionError")
    ELSE Some(RoundHalfEven((current - opening) * 10000, opening))

\* get_variation without the opening_price == 0 test
get_variation_no_zero_guard(s) ==
    IF s.current_price = None \/ s.opening_price = None THEN None
    ELSE VariationPct(s.current_price.v, s.opening_price.v)

\* Stock.get_variation
get_variation(s) ==
    IF s.current_price = None \/ s.opening_price = None THEN None
    ELSE IF s.opening_price.v = 0 THEN None
    ELSE VariationPct(s.current_price.v, s.opening_price.v)

(***************************************************************************)
(* models/portfolio.py                                                     *)
(*                                                                         *)
(* A holding returned by a method is the index of the Stock object in      *)
(* Portfolio.stocks.                                                       *)
(***************************************************************************)
\* Portfolio.get_stock: the first holding whose symbol is symbol.upper()
get_stock(list, symbol) ==
    LET found == { i \in 1..Len(list) : list[i].symbol = Upper(symbol) }
    IN  IF found = {} THEN None
        ELSE Some(CHOOSE i \in found : \A j \in found : i <= j)

\* add_stock without the get_stock test
add_stock_unchecked(list, stk) ==
    [stocks |-> Append(list, stk), ret |-> Some(TRUE)]

\* Portfolio.add_stock: the new list and the value returned
add_stock(list, stk) ==
    IF get_stock(list, stk.symbol) # None
    THEN [stocks |-> list, ret |-> Some(FALSE)]
    ELSE [stocks |-> Append(list, stk), ret |-> Some(TRUE)]

\* self.stocks.pop(i)
Pop(list, i) == SubSeq(list, 1, i - 1) \o SubSeq(list, i + 1, Len(list))

\* remove_stock comparing with the argument as given, without .upper()
remove_stock_keeps_case(list, symbol) ==
    LET found == { i \in 1..Len(list) : list[i].symbol = symbol }
    IN  IF found = {} THEN [stocks |-> list, ret |-> Some(FALSE)]
        ELSE [stocks |-> Pop(list, CHOOSE i \in found : \A j \in found : i <= j),
              ret |-> Some(TRUE)]

\* Portfolio.remove_stock: the new list and the value returned
remove_stock(list, symbol) ==
    LET found == { i \in 1..Len(list) : list[i].symbol = Upper(symbol) }
    IN  IF found = {} THEN [stocks |-> list, ret |-> Some(FALSE)]
        ELSE [stocks |-> Pop(list, CHOOSE i \in found : \A j \in found : i <= j),
              ret |-> Some(TRUE)]

NegInf == [t |-> "-inf"]
PosInf == [t |-> "+inf"]

\* variation > best_variation, best_variation a float or float('-inf')
GreaterThan(variation, best_variation) ==
    best_variation = NegInf \/ (best_variation # PosInf /\ variation > best_variation.v)

\* variation < worst_variation, worst_variation a float or float('inf')
LessThan(variation, worst_variation) ==
    worst_variation = PosInf \/ (worst_variation # NegInf /\ variation < worst_variation.v)

\* the loop of get_best_performer with >= in place of >
RECURSIVE BestScan_last_tie_wins(_, _, _, _)
BestScan_last_tie_wins(list, i, best_stock, best_variation) ==
    IF i > Len(list) THEN best_stock
    ELSE LET variation == get_variation(list[i])
         IN  IF variation.t = "raise" THEN variation
             ELSE IF variation # None
                     /\ (GreaterThan(variation.v, best_variation)
                         \/ Some(variation.v) = best_variation)
             THEN BestScan_last_tie_wins(list, i + 1, Some(i), Some(variation.v))
             ELSE BestScan_last_tie_wins(list, i + 1, best_stock, best_variation)

\* the loop of get_best_performer from the i-th holding on
RECURSIVE BestScan(_, _, _, _)
BestScan(list, i, best_stock, best_variation) ==
    IF i > Len(list) THEN best_stock
    ELSE LET variation == get_variation(list[i])
         IN  IF variation.t = "raise" THEN variation
             ELSE IF variation # None /\ GreaterThan(variation.v, best_variation)
             THEN BestScan(list, i + 1, Some(i), Some(variation.v))
             ELSE BestScan(list, i + 1, best_stock, best_variation)

\* Portfolio.get_best_performer
get_best_performer(list) ==
    IF list = <<>> THEN None
    ELSE BestScan(list, 1, None, NegInf)

\* the loop of get_worst_performer from the i-th holding on
RECURSIVE WorstScan(_, _, _, _)
WorstScan(list, i, worst_stock, worst_variation) ==
    IF i > Len(list) THEN worst_stock
    ELSE LET variation == get_variation(list[i])
         IN  IF variation.t = "raise" THEN variation
             ELSE IF variation # None /\ LessThan(variation.v, worst_variation)
             THEN WorstScan(list, i + 1, Some(i), Some(variation.v))
             ELSE WorstScan(list, i + 1, worst_stock, worst_variation)

\* get_worst_performer with worst_variation starting at 0 instead of +infinity
get_worst_performer_from_zero(list) ==
    IF list = <<>> THEN None
    ELSE WorstScan(list, 1, None, Some(0))

\* Portfolio.get_worst_performer
get_worst_performer(list) ==
    IF list = <<>> THEN None
    ELSE WorstScan(list, 1, None, PosInf)

\* the list `variations` built by get_average_variation from the i-th holding on
RECURSIVE Variations(_, _)
Variations(list, i) ==
    IF i > Len(list) THEN <<>>
    ELSE LET var == get_variation(list[i])
         IN  IF var # None THEN <<var>> \o Variations(list, i + 1)
             ELSE Variations(list, i + 1)

\* sum(variations)
RECURSIVE SumSeq(_)
SumSeq(q) == IF q = <<>> THEN 0 ELSE Head(q).v + SumSeq(Tail(q))

\* round(total / count, 2) for a total that is a number of hundredths: the
\* outcomes the float quotient can round to.  Away from a tie the nearest
\* hundredth; at a tie (x.xx5) the binary quotient lies just below or just
\* above it for some inputs, so both neighbours are outcomes.
RoundedQuotients(total, count) ==
    LET q == total \div count
        r == total - q * count
    IN  IF 2 * r < count THEN {q}
        ELSE IF 2 * r > count THEN {q + 1}
        ELSE {q, q + 1}

\* get_average_variation dividing by len(self.stocks)
get_average_variation_over_all(list) ==
    IF list = <<>> THEN {None}
    ELSE LET variations == Variations(list, 1)
         IN  IF variations = <<>> THEN {None}
             ELSE { Some(a) : a \in RoundedQuotients(SumSeq(variations), Len(list)) }

\* Portfolio.get_average_variation: the set of values the call can return
get_average_variation(list) ==
    IF list = <<>> THEN {None}
    ELSE LET variations == Variations(list, 1)
         IN  IF \E k \in 1..Len(variations) : variations[k].t = "raise"
             THEN { variations[k] : k \in { j \in 1..Len(variations) : variations[j].t = "raise" } }
             ELSE IF variations = <<>> THEN {None}
             ELSE { Some(a) : a \in RoundedQuotients(SumSeq(variations), Len(variations)) }

\* get_total_value with `total = stock.current_price` in place of `+=`
RECURSIVE TotalLoop_assigns(_, _, _)
TotalLoop_assigns(list, i, total) ==
    IF i > Len(list) THEN total
    ELSE IF list[i].current_price # None
         THEN TotalLoop_assigns(list, i + 1, list[i].current_price.v)
         ELSE TotalLoop_assigns(list, i + 1, total)

\* get_total_value, the loop from the i-th holding on: total at its end
RECURSIVE TotalLoop(_, _, _)
TotalLoop(list, i, total) ==
    IF i > Len(list) THEN total
    ELSE IF list[i].current_price # None
         THEN TotalLoop(list, i + 1, total + list[i].current_price.v)
         ELSE TotalLoop(list, i + 1, total)

\* Portfolio.get_total_value: round(total, 2).  The prices are read as
\* thousandths of a currency unit and the result is a number of hundredths;
\* the set of values the call can return (two at a tie, as for the quotient)
get_total_value(list) ==
    { Some(a) : a \in RoundedQuotients(TotalLoop(list, 1, 0), 10) }

(***************************************************************************)
(* A stand-alone Stock: construction, update_price, get_variation          *)
(***************************************************************************)
Idle == [name |-> "none"]

NoBatch ==
    /\ pc = "idle"
    /\ symbols = <<>>
    /\ api = <<>>
    /\ results = <<>>
    /\ order = <<>>
    /\ syncI = 0
    /\ syncOut = <<>>
    /\ asyncOut = <<>>

InitStock ==
    /\ \E symbol \in RawSymbols, name \in Names : stock = StockInit(symbol, name)
    /\ stocks = <<>>
    /\ clock = 0
    /\ op = Idle
    /\ ret = None
    /\ self_data = None
    /\ connection = NoTables
    /\ NoBatch

StockUpdatePrice ==
    /\ clock < MaxUpdates
    /\ \E new_price \in Opt(CurrentPrices), opening \in Opt(OpeningPrices), high \in Opt(Highs),
          low \in Opt(Lows), volume \in Opt(Volumes) :
          /\ stock' = update_price(stock, new_price, opening, high, low, volume, clock + 1)
          /\ op' = [name |-> "update_price", new_price |-> new_price,
                    opening |-> opening, high |-> high, low |-> low,
                    volume |-> volume]
    /\ clock' = clock + 1
    /\ ret' = None
    /\ UNCHANGED <<connection, self_data, stocks, pc, symbols, api, results, order, syncI,
                   syncOut, asyncOut>>

StockGetVariation ==
    /\ op' = [name |-> "get_variation"]
    /\ ret' = get_variation(stock)
    /\ UNCHANGED <<connection, self_data, stock, stocks, clock, pc, symbols, api, results, order, syncI,
                   syncOut, asyncOut>>

NextStock == StockUpdatePrice \/ StockGetVariation

SpecStock == InitStock /\ [][NextStock]_vars

\* C6 as stated: get_variation returns exactly
\* (current_price - opening_price) / opening_price * 100 when both prices are
\* set and opening_price is not 0, and None otherwise.
C6_ExactVariation ==
    op.name = "get_variation" =>
        IF stock.current_price # None /\ stock.opening_price # None
           /\ stock.opening_price.v # 0
        THEN /\ ret.t = "val"
             /\ ret.v * stock.opening_price.v
                  = (stock.current_price.v - stock.opening_price.v) * 10000
        ELSE ret = None

\* C6 (amended): get_variation never raises; it returns None when
\* current_price is None, opening_price is None or opening_price is 0, and
\* otherwise the value (current - opening) / opening * 100 rounded to two
\* decimals, i.e. a number of hundredths within half a hundredth of it
\* (opening 100, current 110 gives 10.00).
C6_VariationRounded ==
    op.name = "get_variation" =>
        /\ ret.t # "raise"
        /\ IF stock.current_price # None /\ stock.opening_price # None
              /\ stock.opening_price.v # 0
           THEN LET c == stock.current_price.v
                    o == stock.opening_price.v
                IN  /\ ret.t = "val"
                    /\ 2 * Abs(ret.v * o - (c - o) * 10000) <= Abs(o)
                    /\ (c = 110 /\ o = 100) => ret.v = 1000
           ELSE ret = None

\* get_variation was called on a stock with a price and an opening price of 0
C6_Witness ==
    /\ op.name = "get_variation"
    /\ stock.current_price # None
    /\ stock.opening_price = Some(0)
    /\ ret = None
    /\ self_data = None
    /\ connection = NoTables

\* C8: update_price always overwrites current_price (also with None),
\* overwrites opening_price, highest_price, lowest_price and volume only when
\* the argument is not None, keeps symbol and name, and sets last_update.
C8_UpdatePriceFrame ==
    [][op'.name = "update_price" =>
        /\ stock'.current_price = op'.new_price
        /\ stock'.opening_price =
             IF op'.opening = None THEN stock.opening_price ELSE op'.opening
        /\ stock'.highest_price =
             IF op'.high = None THEN stock.highest_price ELSE op'.high
        /\ stock'.lowest_price =
             IF op'.low = None THEN stock.lowest_price ELSE op'.low
        /\ stock'.volume =
             IF op'.volume = None THEN stock.volume ELSE op'.volume
        /\ stock'.symbol = stock.symbol
        /\ stock'.name = stock.name
        /\ stock'.last_update = Some(clock')
        /\ stock'.last_update # stock.last_update]_vars

\* update_price(None, None, 130, None, None) on a stock that had an opening
\* price, another high and a current price
C8_Witness ==
    /\ op.name = "update_price"
    /\ op.new_price = None /\ stock.current_price = None
    /\ op.opening = None /\ stock.opening_price # None
    /\ op.high = Some(130) /\ stock.highest_price = Some(130)
    /\ op.low = None /\ stock.lowest_price # None
    /\ stock.last_update = Some(2)

(***************************************************************************)
(* The metrics of a portfolio: best and worst performer, average variation *)
(***************************************************************************)
\* the symbol the i-th stock of a metrics portfolio is built from
SymbolNo(i) == [k \in 1..i |-> "a"]

\* a Stock as the callers build it: constructed, then possibly updated once
BuiltStocks(symbol) ==
    {StockInit(symbol, AppleName)} \cup
    { update_price(StockInit(symbol, AppleName), new_price, opening, None, None, None, 0) :
        new_price \in Opt(CurrentPrices), opening \in Opt(OpeningPrices) }

InitMetrics ==
    /\ \E n \in 0..MaxStocks :
         \E list \in [1..n -> UNION { BuiltStocks(SymbolNo(i)) : i \in 1..n }] :
            /\ \A i \in 1..n : list[i].symbol = Upper(SymbolNo(i))
            /\ stocks = list
    /\ stock = StockInit(SymbolNo(1), AppleName)
    /\ clock = 0
    /\ op = Idle
    /\ ret = None
    /\ self_data = None
    /\ connection = NoTables
    /\ NoBatch

GetBestPerformer ==
    /\ op' = [name |-> "get_best_performer"]
    /\ ret' = get_best_performer(stocks)
    /\ UNCHANGED <<connection, self_data, stock, stocks, clock, pc, symbols, api, results, order, syncI,
                   syncOut, asyncOut>>

GetWorstPerformer ==
    /\ op' = [name |-> "get_worst_performer"]
    /\ ret' = get_worst_performer(stocks)
    /\ UNCHANGED <<connection, self_data, stock, stocks, clock, pc, symbols, api, results, order, syncI,
                   syncOut, asyncOut>>

GetAverageVariation ==
    /\ op' = [name |-> "get_average_variation"]
    /\ ret' \in get_average_variation(stocks)
    /\ UNCHANGED <<connection, self_data, stock, stocks, clock, pc, symbols, api, results, order, syncI,
                   syncOut, asyncOut>>

GetTotalValue ==
    /\ op' = [name |-> "get_total_value"]
    /\ ret' \in get_total_value(stocks)
    /\ UNCHANGED <<connection, self_data, stock, stocks, clock, pc, symbols, api, results, order, syncI,
                   syncOut, asyncOut>>

NextMetrics ==
    \/ GetBestPerformer
    \/ GetWorstPerformer
    \/ GetAverageVariation
    \/ GetTotalValue

SpecMetrics == InitMetrics /\ [][NextMetrics]_vars

\* the holdings with a defined variation
Defined(list) == { i \in 1..Len(list) : get_variation(list[i]) # None }
VariationOf(list, i) == get_variation(list[i]).v

\* C4: get_best_performer returns a holding whose variation is the maximum
\* over the holdings with a defined variation, get_worst_performer one whose
\* variation is the minimum; among several holdings tied for it, the one
\* added first (lowest index) is returned.
C4_BestWorstFirstOfTies ==
    /\ (op.name = "get_best_performer" /\ ret # None) =>
          /\ ret.t = "val"
          /\ ret.v \in Defined(stocks)
          /\ \A j \in Defined(stocks) :
                /\ VariationOf(stocks, j) <= VariationOf(stocks, ret.v)
                /\ j < ret.v => VariationOf(stocks, j) < VariationOf(stocks, ret.v)
    /\ (op.name = "get_worst_performer" /\ ret # None) =>
          /\ ret.t = "val"
          /\ ret.v \in Defined(stocks)
          /\ \A j \in Defined(stocks) :
                /\ VariationOf(stocks, j) >= VariationOf(stocks, ret.v)
                /\ j < ret.v => VariationOf(stocks, j) > VariationOf(stocks, ret.v)

\* get_best_performer on three holdings: the first below the maximum, the
\* second and third tied for it; the second is returned
C4_Witness ==
    /\ op.name = "get_best_performer"
    /\ Len(stocks) = 3
    /\ Defined(stocks) = {1, 2, 3}
    /\ VariationOf(stocks, 1) < VariationOf(stocks, 2)
    /\ VariationOf(stocks, 2) = VariationOf(stocks, 3)
    /\ ret = Some(2)

\* C5: get_best_performer and get_worst_performer return None when the
\* portfolio is empty and when every holding has an undefined variation
\* (missing current or opening price, or opening price 0), and a holding in
\* every other case.
C5_NoneIffNoDefinedVariation ==
    op.name \in {"get_best_performer", "get_worst_performer"} =>
        LET undefined(s) == \/ s.current_price = None
                            \/ s.opening_price = None
                            \/ s.opening_price = Some(0)
        IN  IF \A i \in 1..Len(stocks) : undefined(stocks[i])
            THEN ret = None
            ELSE ret.t = "val" /\ ret.v \in 1..Len(stocks)

\* get_worst_performer on holdings that all lack a variation, one of them
\* because its opening price is 0 and another because it has no current price
C5_Witness ==
    /\ op.name = "get_worst_performer"
    /\ \E i, j \in 1..Len(stocks) :
          /\ stocks[i].opening_price = Some(0) /\ stocks[i].current_price # None
          /\ stocks[j].current_price = None /\ stocks[j].opening_price = Some(100)
    /\ Defined(stocks) = {}
    /\ ret = None
    /\ self_data = None
    /\ connection = NoTables

\* the sum of the variations of the holdings in S
RECURSIVE SumOver(_, _)
SumOver(list, S) ==
    IF S = {} THEN 0
    ELSE LET i == CHOOSE x \in S : TRUE
         IN  VariationOf(list, i) + SumOver(list, S \ {i})

\* C7 as stated: get_average_variation returns the arithmetic mean of the
\* defined variations, None when there is none.
C7_ExactMean ==
    op.name = "get_average_variation" =>
        IF Defined(stocks) = {} THEN ret = None
        ELSE /\ ret.t = "val"
             /\ ret.v * Cardinality(Defined(stocks)) = SumOver(stocks, Defined(stocks))

\* C7 (amended): get_average_variation returns None when the portfolio is
\* empty or no holding has a defined variation; otherwise it returns the
\* arithmetic mean of get_variation() over the holdings whose variation is
\* defined (the others count neither in the numerator nor in the
\* denominator), rounded to two decimals: a number of hundredths within half
\* a hundredth of that mean.
C7_MeanOfDefinedRounded ==
    op.name = "get_average_variation" =>
        IF Defined(stocks) = {} THEN ret = None
        ELSE LET n == Cardinality(Defined(stocks))
             IN  /\ ret.t = "val"
                 /\ 2 * Abs(ret.v * n - SumOver(stocks, Defined(stocks))) <= n

\* get_average_variation on three holdings, one without an opening price:
\* the mean is taken over the other two
C7_Witness ==
    /\ op.name = "get_average_variation"
    /\ Len(stocks) = 3
    /\ stocks[2].opening_price = None /\ stocks[2].current_price # None
    /\ Defined(stocks) = {1, 3}
    /\ VariationOf(stocks, 1) = 1000 /\ VariationOf(stocks, 3) = -9600
    /\ ret = Some(-4300)

\* the holdings with a price
Priced(list) == { i \in 1..Len(list) : list[i].current_price # None }

RECURSIVE PriceSum(_, _)
PriceSum(list, S) ==
    IF S = {} THEN 0
    ELSE LET i == CHOOSE x \in S : TRUE
         IN  list[i].current_price.v + PriceSum(list, S \ {i})

\* C23 as stated: get_total_value returns exactly the sum of current_price
\* over the holdings whose current_price is not None (prices in thousandths,
\* result in hundredths).
C23_ExactTotal ==
    op.name = "get_total_value" =>
        /\ ret.t = "val"
        /\ 10 * ret.v = PriceSum(stocks, Priced(stocks))

\* C23 (amended): get_total_value returns the sum of current_price over the
\* holdings whose current_price is not None, each counted once, rounded to
\* two decimals: a number of hundredths within half a hundredth of that sum;
\* holdings without a price contribute nothing and an empty portfolio has
\* total 0.
C23_TotalOfPricedRounded ==
    op.name = "get_total_value" =>
        /\ ret.t = "val"
        /\ Abs(10 * ret.v - PriceSum(stocks, Priced(stocks))) <= 5
        /\ Priced(stocks) = {} => ret = Some(0)

\* get_total_value on three holdings, the second without a price, returned
\* 0.11 for prices 0.110 and 0.004
C23_Witness ==
    /\ op.name = "get_total_value"
    /\ Len(stocks) = 3
    /\ Priced(stocks) = {1, 3}
    /\ stocks[1].current_price = Some(110)
    /\ stocks[3].current_price = Some(4)
    /\ ret = Some(11)

(***************************************************************************)
(* api/data_fetcher.py                                                     *)
(*                                                                         *)
(* The data source answers yf.Ticker(symbol).info with a dict, modelled as *)
(* a set of <<key, value>> pairs, or raises.                               *)
(***************************************************************************)
SourceRaises == [t |-> "raise", e |-> "Exception"]
Dict(d) == [t |-> "dict", d |-> d]

\* key in info
Has(info, key) == \E p \in info : p[1] = key

\* info.get(key, default)
Get(info, key, default) ==
    IF Has(info, key) THEN (CHOOSE p \in info : p[1] = key)[2] ELSE default

ShortName == Some(<<"a", "p", "l">>)

\* the answers of the data source
Responses ==
    { SourceRaises,
      Dict({}),
      Dict({ <<"regularMarketPrice", Some(110)>>, <<"open", Some(100)>> }),
      Dict({ <<"currentPrice", None>>, <<"regularMarketPrice", Some(110)>>,
             <<"open", Some(100)>> }),
      Dict({ <<"currentPrice", Some(110)>>, <<"open", Some(100)>>,
             <<"dayHigh", Some(120)>>, <<"dayLow", Some(90)>>,
             <<"volume", Some(1000)>>, <<"longName", AppleName>> }),
      Dict({ <<"currentPrice", Some(4)>>, <<"regularMarketOpen", Some(3)>>,
             <<"regularMarketDayHigh", Some(130)>>, <<"shortName", ShortName>> }),
      Dict({ <<"currentPrice", Some(110)>>, <<"open", None>>, <<"dayHigh", None>>,
             <<"dayLow", None>>, <<"volume", None>>, <<"longName", AppleName>> }) }

\* a format of the price that accepts None (f"{data['current_price']}")
FormatPrice_accepts_None(price) == Some("formatted")

\* f"{data['current_price']:.2f}": None has no float format
FormatPrice(price) ==
    IF price = None THEN Raised("TypeError") ELSE Some("formatted")

\* the body of the try block of fetch_current_price
FetchCurrentPriceBody(symbol, response) ==
    IF response.t = "raise" THEN Raised(response.e)
    ELSE LET info == response.d
         IN  IF info = {} \/ ~Has(info, "currentPrice") THEN None
             ELSE LET data ==
                        [ symbol |-> Upper(symbol),
                          name |-> Get(info, "longName", Get(info, "shortName", Some(symbol))),
                          current_price |-> Get(info, "currentPrice",
                                                Get(info, "regularMarketPrice", None)),
                          open |-> Get(info, "open", Get(info, "regularMarketOpen", None)),
                          high |-> Get(info, "dayHigh", Get(info, "regularMarketDayHigh", None)),
                          low |-> Get(info, "dayLow", Get(info, "regularMarketDayLow", None)),
                          volume |-> Get(info, "volume",
                                         Get(info, "regularMarketVolume", Some(0))),
                          previous_close |-> Get(info, "previousClose",
                                                 Get(info, "regularMarketPreviousClose", None)) ]
                  IN  IF FormatPrice(data.current_price).t = "raise"
                      THEN FormatPrice(data.current_price)
                      ELSE Some(data)

\* DataFetcher.fetch_current_price: except Exception -> None
fetch_current_price(symbol, response) ==
    LET r == FetchCurrentPriceBody(symbol, response)
    IN  IF r.t = "raise" THEN None ELSE r

\* create_stock_from_api without its try/except: what the body raises goes up
create_stock_from_api_uncaught(symbol, response, now) ==
    LET data == FetchCurrentPriceBody(symbol, response)
    IN  IF data.t = "raise" THEN data
        ELSE IF data = None THEN None
        ELSE Some(update_price(StockInit(data.v.symbol, data.v.name),
                               data.v.current_price, data.v.open, data.v.high,
                               data.v.low, data.v.volume, now))

\* DataFetcher.create_stock_from_api; now is what datetime.now() returns
create_stock_from_api(symbol, response, now) ==
    LET data == fetch_current_price(symbol, response)
    IN  IF data = None THEN None
        ELSE Some(update_price(StockInit(data.v.symbol, data.v.name),
                               data.v.current_price, data.v.open, data.v.high,
                               data.v.low, data.v.volume, now))

\* `stocks = [stock]` in place of stocks.append(stock)
SyncBody_overwrites(list, stk) ==
    IF stk # None THEN <<stk.v>> ELSE list

\* `stocks.insert(0, stock)` in place of stocks.append(stock)
SyncBody_prepends(list, stk) ==
    IF stk # None THEN <<stk.v>> \o list ELSE list

\* fetch_multiple_stocks_sync, body of the loop: if stock: stocks.append(stock)
SyncBody(list, stk) ==
    IF stk # None THEN Append(list, stk.v) ELSE list

(***************************************************************************)
(* api/async_fetcher.py                                                    *)
(***************************************************************************)
Pending == [t |-> "pending"]

\* asyncio.gather(*tasks) without return_exceptions: the first exception in
\* task order is raised to the caller
Gather_raises(outcomes) ==
    IF \E i \in 1..Len(outcomes) : outcomes[i].t = "raise"
    THEN outcomes[CHOOSE i \in 1..Len(outcomes) :
                    /\ outcomes[i].t = "raise"
                    /\ \A j \in 1..(i - 1) : outcomes[j].t # "raise"]
    ELSE Some(outcomes)

\* the outcomes collected as the tasks complete (asyncio.as_completed), not
\* in task order
Gather_as_completed(outcomes) ==
    IF Len(order) = Len(outcomes)
    THEN Some([k \in 1..Len(order) |-> outcomes[order[k]]])
    ELSE Some(outcomes)

\* await asyncio.gather(*tasks, return_exceptions=True): the outcomes in task
\* order, an exception being the outcome of the task that raised it
Gather(outcomes) == Some(outcomes)

\* [result for result in results if result is not None and isinstance(result, Stock)]
RECURSIVE FilterStocks(_)
FilterStocks(outcomes) ==
    IF outcomes = <<>> THEN <<>>
    ELSE IF Head(outcomes) # None /\ Head(outcomes).t = "val"
         THEN <<Head(outcomes).v>> \o FilterStocks(Tail(outcomes))
         ELSE FilterStocks(Tail(outcomes))

\* fetch_multiple_stocks once every task has an outcome: the list returned,
\* or the exception raised
FetchMultipleResult(outcomes) ==
    LET gathered == Gather(outcomes)
    IN  IF gathered.t = "raise" THEN gathered
        ELSE Some(FilterStocks(gathered.v))

\* the loop of fetch_and_update_portfolio left after its first iteration
\* (a `break` at the end of the loop body)
UpdateLoop_breaks(list, updated_stocks, k, now, updates) ==
    IF k > Len(updated_stocks)
    THEN [stocks |-> list, clock |-> now, updates |-> updates]
    ELSE LET updated_stock == updated_stocks[k]
             existing_stock == get_stock(list, updated_stock.symbol)
         IN  IF existing_stock # None
             THEN [stocks |->
                     [list EXCEPT ![existing_stock.v] =
                        update_price(@, updated_stock.current_price,
                                     updated_stock.opening_price,
                                     updated_stock.highest_price,
                                     updated_stock.lowest_price,
                                     updated_stock.volume, now + 1)],
                   clock |-> now + 1, updates |-> updates + 1]
             ELSE [stocks |-> list, clock |-> now, updates |-> updates]

\* fetch_and_update_portfolio, the loop over updated_stocks from the k-th on:
\* the holdings, the clock and the count `updates` at its end
RECURSIVE UpdateLoop(_, _, _, _, _)
UpdateLoop(list, updated_stocks, k, now, updates) ==
    IF k > Len(updated_stocks)
    THEN [stocks |-> list, clock |-> now, updates |-> updates]
    ELSE LET updated_stock == updated_stocks[k]
             existing_stock == get_stock(list, updated_stock.symbol)
         IN  IF existing_stock # None
             THEN UpdateLoop(
                    [list EXCEPT ![existing_stock.v] =
                        update_price(@, updated_stock.current_price,
                                     updated_stock.opening_price,
                                     updated_stock.highest_price,
                                     updated_stock.lowest_price,
                                     updated_stock.volume, now + 1)],
                    updated_stocks, k + 1, now + 1, updates + 1)
             ELSE UpdateLoop(list, updated_stocks, k + 1, now, updates)

(***************************************************************************)
(* One list of symbols fetched by both strategies from one data source:    *)
(* fetch_multiple_stocks_sync, then AsyncFetcher.fetch_multiple_stocks     *)
(***************************************************************************)
FetchSymbols == { <<"a", "b">>, <<"A", "B">>, <<"c">> }

SymbolLists == UNION { [1..n -> FetchSymbols] : n \in 0..MaxBatch }

InitFetch ==
    /\ symbols \in SymbolLists
    /\ api \in [FetchSymbols -> Responses]
    /\ pc = "sync"
    /\ syncI = 1
    /\ syncOut = <<>>
    /\ results = <<>>
    /\ order = <<>>
    /\ asyncOut = <<>>
    /\ stock = StockInit(<<"c">>, AppleName)
    /\ stocks = <<>>
    /\ clock = 0
    /\ op = Idle
    /\ ret = None
    /\ self_data = None
    /\ connection = NoTables

\* fetch_multiple_stocks_sync: one iteration of `for symbol in symbols`
SyncStep ==
    /\ pc = "sync"
    /\ syncI <= Len(symbols)
    /\ LET stk == create_stock_from_api(symbols[syncI], api[symbols[syncI]], clock + 1)
       IN  IF stk.t = "raise"
           THEN /\ pc' = "sync_done"
                /\ op' = [name |-> "fetch_multiple_stocks_sync"]
                /\ ret' = stk
                /\ UNCHANGED <<syncI, syncOut, clock>>
           ELSE /\ syncOut' = SyncBody(syncOut, stk)
                /\ syncI' = syncI + 1
                /\ clock' = IF stk # None THEN clock + 1 ELSE clock
                /\ UNCHANGED <<pc, op, ret>>
    /\ UNCHANGED <<connection, self_data, stock, stocks, symbols, api, results, order, asyncOut>>

\* fetch_multiple_stocks_sync: return stocks
SyncReturn ==
    /\ pc = "sync"
    /\ syncI > Len(symbols)
    /\ pc' = "sync_done"
    /\ op' = [name |-> "fetch_multiple_stocks_sync"]
    /\ ret' = Some(syncOut)
    /\ UNCHANGED <<connection, self_data, stock, stocks, clock, symbols, api, results, order, syncI,
                   syncOut, asyncOut>>

\* fetch_multiple_stocks: the tasks are created and gather awaits them
AsyncStart ==
    /\ pc = "sync_done"
    /\ pc' = "gather"
    /\ results' = [i \in 1..Len(symbols) |-> Pending]
    /\ order' = <<>>
    /\ UNCHANGED <<connection, self_data, stock, stocks, clock, op, ret, symbols, api, syncI, syncOut,
                   asyncOut>>

\* a fetch task that applies update_price to its holding itself, as soon as
\* its own fetch returns
TaskCompletes_updates(i) ==
    /\ pc = "gather"
    /\ results[i] = Pending
    /\ LET stk == create_stock_from_api(symbols[i], api[symbols[i]], clock + 1)
       IN  /\ results' = [results EXCEPT ![i] = stk]
           /\ clock' = IF stk.t = "val" THEN clock + 1 ELSE clock
           /\ stocks' = IF stk.t = "val" /\ i \in DOMAIN stocks
                        THEN [stocks EXCEPT ![i] =
                                update_price(@, stk.v.current_price, stk.v.opening_price,
                                             stk.v.highest_price, stk.v.lowest_price,
                                             stk.v.volume, clock + 1)]
                        ELSE stocks
    /\ order' = Append(order, i)
    /\ UNCHANGED <<connection, self_data, stock, op, ret, pc, symbols, api, syncI, syncOut, asyncOut>>

\* fetch_one_stock_async(symbols[i]) runs to its return
TaskCompletes(i) ==
    /\ pc = "gather"
    /\ results[i] = Pending
    /\ LET stk == create_stock_from_api(symbols[i], api[symbols[i]], clock + 1)
       IN  /\ results' = [results EXCEPT ![i] = stk]
           /\ clock' = IF stk.t = "val" THEN clock + 1 ELSE clock
    /\ order' = Append(order, i)
    /\ UNCHANGED <<connection, self_data, stock, stocks, op, ret, pc, symbols, api, syncI, syncOut,
                   asyncOut>>

\* fetch_one_stock_async(symbols[i]) raises outside create_stock_from_api
\* (asyncio.to_thread cannot start its thread, the task is cancelled)
TaskRaises(i) ==
    /\ pc = "gather"
    /\ results[i] = Pending
    /\ results' = [results EXCEPT ![i] = Raised("RuntimeError")]
    /\ order' = Append(order, i)
    /\ UNCHANGED <<connection, self_data, stock, stocks, clock, op, ret, pc, symbols, api, syncI,
                   syncOut, asyncOut>>

\* fetch_multiple_stocks: gather returns, the results are filtered and returned
AsyncReturn ==
    /\ pc = "gather"
    /\ \A i \in 1..Len(results) : results[i] # Pending
    /\ LET returned == FetchMultipleResult(results)
       IN  /\ ret' = returned
           /\ asyncOut' = IF returned.t = "raise" THEN <<>> ELSE returned.v
    /\ pc' = "done"
    /\ op' = [name |-> "fetch_multiple_stocks"]
    /\ UNCHANGED <<connection, self_data, stock, stocks, clock, symbols, api, results, order, syncI,
                   syncOut>>

NextFetch ==
    \/ SyncStep
    \/ SyncReturn
    \/ AsyncStart
    \/ \E i \in 1..Len(results) : TaskCompletes(i)
    \/ \E i \in 1..Len(results) : TaskRaises(i)
    \/ AsyncReturn

SpecFetch == InitFetch /\ [][NextFetch]_vars

\* the data source answers with a current price
SourceHasPrice(response) ==
    /\ response.t = "dict"
    /\ \E p \in response.d : p[1] = "currentPrice" /\ p[2] # None

SymbolsOf(list) == { list[k].symbol : k \in 1..Len(list) }

\* C9: for the same list of symbols and the same data source, and no
\* per-symbol task failing outside the data source, fetch_multiple_stocks_sync
\* and fetch_multiple_stocks return lists with the same set of symbols: the
\* upper-cased symbols whose source answer has a price, whatever order the
\* concurrent fetches complete in.
C9_SyncAsyncSameSymbolSet ==
    (pc = "done" /\ \A i \in 1..Len(results) : results[i].t # "raise") =>
        /\ SymbolsOf(asyncOut) = SymbolsOf(syncOut)
        /\ SymbolsOf(asyncOut) =
             { Upper(symbols[i]) :
                 i \in { j \in 1..Len(symbols) : SourceHasPrice(api[symbols[j]]) } }

\* both strategies returned; the second task completed before the first;
\* one symbol was found and the other was not
C9_Witness ==
    /\ pc = "done"
    /\ order = <<2, 1>>
    /\ results[1] = None
    /\ results[2].t = "val"
    /\ Len(syncOut) = 1 /\ Len(asyncOut) = 1
    /\ syncOut[1].symbol = <<"C">>

\* C10: an exception raised by the fetch of one symbol (in the data source or
\* in the per-symbol task) never leaves fetch_multiple_stocks: the call
\* returns a list that holds one Stock for each symbol whose fetch succeeded
\* and nothing for the others.
C10_BatchSurvivesExceptions ==
    pc = "done" =>
        LET ok == { i \in 1..Len(symbols) :
                      results[i].t # "raise" /\ SourceHasPrice(api[symbols[i]]) }
        IN  /\ op.name = "fetch_multiple_stocks"
            /\ ret = Some(asyncOut)
            /\ Len(asyncOut) = Cardinality(ok)
            /\ \A i \in ok : \E k \in 1..Len(asyncOut) :
                  asyncOut[k].symbol = Upper(symbols[i])
            /\ \A k \in 1..Len(asyncOut) : \E i \in ok :
                  asyncOut[k].symbol = Upper(symbols[i])

\* the batch returned one Stock: the task of the first symbol raised, the
\* second symbol was fetched
C10_Witness ==
    /\ pc = "done"
    /\ Len(symbols) = 2
    /\ results[1].t = "raise"
    /\ results[2].t = "val"
    /\ ret = Some(<<results[2].v>>)

\* the upper-cased symbols, in list order, of the first n symbols whose source
\* answer has a price
RECURSIVE SuccessfulUpTo(_, _, _)
SuccessfulUpTo(list, source, n) ==
    IF n = 0 THEN <<>>
    ELSE IF SourceHasPrice(source[list[n]])
         THEN Append(SuccessfulUpTo(list, source, n - 1), Upper(list[n]))
         ELSE SuccessfulUpTo(list, source, n - 1)

SymbolSeq(list) == [k \in 1..Len(list) |-> list[k].symbol]

\* C11: fetch_multiple_stocks_sync handles the symbols one at a time in list
\* order: before its k-th iteration its list holds, in input order, one Stock
\* for each of the first k-1 symbols whose fetch succeeded and nothing for the
\* others; a failed fetch neither raises nor ends the loop, and the call
\* returns that list for the whole input.
C11_SyncKeepsInputOrder ==
    /\ pc = "sync" =>
          /\ syncI \in 1..(Len(symbols) + 1)
          /\ SymbolSeq(syncOut) = SuccessfulUpTo(symbols, api, syncI - 1)
    /\ op.name = "fetch_multiple_stocks_sync" =>
          /\ ret.t = "val"
          /\ SymbolSeq(ret.v) = SuccessfulUpTo(symbols, api, Len(symbols))

\* the call returned two Stocks in the order of their two different symbols
C11_Witness ==
    /\ op.name = "fetch_multiple_stocks_sync"
    /\ Len(symbols) = 2
    /\ Upper(symbols[1]) # Upper(symbols[2])
    /\ ret.t = "val"
    /\ SymbolSeq(ret.v) = <<Upper(symbols[1]), Upper(symbols[2])>>

\* the call returned one Stock: the fetch of the first symbol failed, the
\* second symbol was fetched
C11_WitnessSkip ==
    /\ op.name = "fetch_multiple_stocks_sync"
    /\ Len(symbols) = 2
    /\ ~SourceHasPrice(api[symbols[1]])
    /\ ret.t = "val"
    /\ SymbolSeq(ret.v) = <<Upper(symbols[2])>>

\* the upper-cased symbols, in list order, of the first n tasks that returned
\* a Stock
RECURSIVE FetchedUpTo(_, _, _)
FetchedUpTo(list, outcomes, n) ==
    IF n = 0 THEN <<>>
    ELSE IF outcomes[n].t = "val"
         THEN Append(FetchedUpTo(list, outcomes, n - 1), Upper(list[n]))
         ELSE FetchedUpTo(list, outcomes, n - 1)

\* C29: fetch_multiple_stocks returns the Stocks of the tasks that returned
\* one in the order of their symbols in the input list, whatever the order in
\* which the tasks completed; when no task failed outside the data source its
\* result has the same sequence of symbols, duplicates included, as the
\* result of fetch_multiple_stocks_sync on the same list and data source.
C29_AsyncKeepsInputOrder ==
    pc = "done" =>
        /\ SymbolSeq(asyncOut) = FetchedUpTo(symbols, results, Len(symbols))
        /\ (\A i \in 1..Len(results) : results[i].t # "raise") =>
              /\ SymbolSeq(asyncOut) = SymbolSeq(syncOut)
              /\ SymbolSeq(asyncOut) = SuccessfulUpTo(symbols, api, Len(symbols))

\* the task of the second symbol completed before the task of the first, and
\* the batch returned the two Stocks in the order of the two different symbols
C29_Witness ==
    /\ pc = "done"
    /\ order = <<2, 1>>
    /\ Upper(symbols[1]) # Upper(symbols[2])
    /\ SymbolSeq(asyncOut) = <<Upper(symbols[1]), Upper(symbols[2])>>
    /\ SymbolSeq(syncOut) = SymbolSeq(asyncOut)

IsUpperCase(symbol) == \A k \in 1..Len(symbol) : UpperChar(symbol[k]) = symbol[k]

\* the Stocks built so far by create_stock_from_api, in either strategy
StocksBuilt ==
    { syncOut[k] : k \in 1..Len(syncOut) } \cup
    { results[k].v : k \in { j \in 1..Len(results) : results[j].t = "val" } }

\* C13: for every symbol and every answer of the data source,
\* fetch_current_price returns None when the answer has no current price (the
\* source raised, the answer is empty, the key is missing or its value is
\* null) and otherwise a record with the upper-cased symbol and a non-null
\* price, never an exception; every Stock built by create_stock_from_api has
\* an upper-case symbol and a non-null current_price.
C13_NoPriceIsNotFound ==
    /\ \A symbol \in DOMAIN api :
          LET data == fetch_current_price(symbol, api[symbol])
          IN  /\ data.t # "raise"
              /\ ~SourceHasPrice(api[symbol]) => data = None
              /\ data # None =>
                    /\ data.v.symbol = Upper(symbol)
                    /\ IsUpperCase(data.v.symbol)
                    /\ data.v.current_price # None
    /\ \A stk \in StocksBuilt :
          /\ IsUpperCase(stk.symbol)
          /\ stk.current_price # None

\* the sequential fetch of a lower-case symbol and of a symbol whose answer
\* has a null currentPrice returned one Stock, with the upper-cased symbol
C13_Witness ==
    /\ op.name = "fetch_multiple_stocks_sync"
    /\ Len(symbols) = 2
    /\ symbols[1] = <<"a", "b">>
    /\ api[symbols[2]].t = "dict"
    /\ <<"currentPrice", None>> \in api[symbols[2]].d
    /\ ret.t = "val"
    /\ Len(ret.v) = 1
    /\ ret.v[1].symbol = <<"A", "B">>
    /\ ret.v[1].current_price = Some(110)

\* The batch with one slow symbol, the first of the list.  Every coroutine
\* that can run is run by the event loop, and the thread of every other
\* symbol returns; the fetch of the first symbol may take for ever.
FairFetch ==
    /\ WF_vars(SyncStep)
    /\ WF_vars(SyncReturn)
    /\ WF_vars(AsyncStart)
    /\ \A i \in 2..MaxBatch : WF_vars(i \in 1..Len(results) /\ TaskCompletes(i))
    /\ WF_vars(AsyncReturn)

SpecFetchSlow == InitFetch /\ [][NextFetch]_vars /\ FairFetch

\* every task but the first has its outcome, the first is still running
OnlyFirstPending ==
    /\ pc = "gather"
    /\ Len(results) >= 2
    /\ results[1] = Pending
    /\ \A i \in 2..Len(results) : results[i] # Pending

\* C26 as stated: a symbol whose fetch is slow or never completes does not
\* block the batch: once the fetches of all the other symbols have completed,
\* fetch_multiple_stocks eventually returns.
C26_SlowTaskDoesNotBlock == OnlyFirstPending ~> (pc = "done")

\* what the code does: fetch_multiple_stocks returns only once every task,
\* the slowest included, has its outcome
BatchWaitsForEveryTask ==
    [][pc = "gather" /\ pc' = "done" =>
         \A i \in 1..Len(results) : results[i] # Pending]_vars

(***************************************************************************)
(* A portfolio: add_stock, remove_stock, update_price on a holding and     *)
(* fetch_and_update_portfolio.  The refresh is run by asyncio.run, alone   *)
(* on its event loop: no other call on the portfolio runs while its batch  *)
(* is in flight.                                                           *)
(***************************************************************************)
\* arguments (new_price, opening, high, low, volume) of update_price on a holding
HoldingQuotes ==
    { <<Some(110), Some(100), Some(120), Some(90), Some(1000)>>,
      <<None, Some(0), Some(130), None, None>> }

Init ==
    /\ stocks = <<>>
    /\ stock = StockInit(<<"c">>, AppleName)
    /\ clock = 0
    /\ op = Idle
    /\ ret = None
    /\ self_data = None
    /\ connection = NoTables
    /\ NoBatch

\* portfolio.add_stock(Stock(symbol, name))
AddStock ==
    /\ pc = "idle"
    /\ \E symbol \in RawSymbols, name \in Names :
          LET stk == StockInit(symbol, name)
              r == add_stock(stocks, stk)
          IN  /\ Len(r.stocks) <= MaxStocks
              /\ stocks' = r.stocks
              /\ ret' = r.ret
              /\ op' = [name |-> "add_stock", symbol |-> symbol, stock |-> stk]
    /\ UNCHANGED <<connection, self_data, stock, clock, pc, symbols, api, results, order, syncI,
                   syncOut, asyncOut>>

\* portfolio.remove_stock(symbol)
RemoveStock ==
    /\ pc = "idle"
    /\ \E symbol \in RawSymbols :
          LET r == remove_stock(stocks, symbol)
          IN  /\ stocks' = r.stocks
              /\ ret' = r.ret
              /\ op' = [name |-> "remove_stock", symbol |-> symbol]
    /\ UNCHANGED <<connection, self_data, stock, clock, pc, symbols, api, results, order, syncI,
                   syncOut, asyncOut>>

\* update_price on the i-th holding
HoldingUpdatePrice ==
    /\ pc = "idle"
    /\ clock < MaxUpdates
    /\ \E i \in 1..Len(stocks), q \in HoldingQuotes :
          /\ stocks' = [stocks EXCEPT ![i] =
                          update_price(@, q[1], q[2], q[3], q[4], q[5], clock + 1)]
          /\ op' = [name |-> "update_price", holding |-> i]
    /\ clock' = clock + 1
    /\ ret' = None
    /\ UNCHANGED <<connection, self_data, stock, pc, symbols, api, results, order, syncI, syncOut,
                   asyncOut>>

\* fetch_and_update_portfolio up to `await self.fetch_multiple_stocks(symbols)`;
\* the data source has some answer for each symbol of the batch
RefreshStart ==
    /\ pc = "idle"
    /\ IF stocks = <<>>
       THEN /\ op' = [name |-> "fetch_and_update_portfolio"]
            /\ ret' = Some(FALSE)
            /\ UNCHANGED <<pc, symbols, api, results, order, asyncOut>>
       ELSE /\ clock + 2 * Len(stocks) <= MaxClock
            /\ pc' = "gather"
            /\ symbols' = [i \in 1..Len(stocks) |-> stocks[i].symbol]
            /\ api' \in [SymbolsOf(stocks) -> Responses]
            /\ results' = [i \in 1..Len(stocks) |-> Pending]
            /\ order' = <<>>
            /\ asyncOut' = <<>>
            /\ op' = Idle
            /\ ret' = None
    /\ UNCHANGED <<connection, self_data, stock, stocks, clock, syncI, syncOut>>

\* fetch_and_update_portfolio from the return of fetch_multiple_stocks on
RefreshFinish ==
    /\ pc = "gather"
    /\ \A i \in 1..Len(results) : results[i] # Pending
    /\ LET returned == FetchMultipleResult(results)
       IN  IF returned.t = "raise"
           THEN /\ ret' = returned
                /\ asyncOut' = <<>>
                /\ UNCHANGED <<stocks, clock>>
           ELSE LET r == UpdateLoop(stocks, returned.v, 1, clock, 0)
                IN  /\ stocks' = r.stocks
                    /\ clock' = r.clock
                    /\ ret' = Some(r.updates > 0)
                    /\ asyncOut' = <<>>
    /\ op' = [name |-> "fetch_and_update_portfolio"]
    /\ pc' = "idle"
    /\ symbols' = <<>>
    /\ api' = <<>>
    /\ results' = <<>>
    /\ order' = <<>>
    /\ UNCHANGED <<connection, self_data, stock, syncI, syncOut>>

Next ==
    \/ AddStock
    \/ RemoveStock
    \/ HoldingUpdatePrice
    \/ RefreshStart
    \/ \E i \in 1..Len(results) : TaskCompletes(i)
    \/ \E i \in 1..Len(results) : TaskRaises(i)
    \/ RefreshFinish

Spec == Init /\ [][Next]_vars

\* the strings a and b are equal when the case of their letters is ignored
EqualIgnoringCase(a, b) ==
    /\ Len(a) = Len(b)
    /\ \A k \in 1..Len(a) :
          a[k] = b[k] \/ UpperChar(a[k]) = b[k] \/ a[k] = UpperChar(b[k])

\* C1: add_stock(stock) on a portfolio that holds a stock with the same
\* symbol, compared case-insensitively, returns False and leaves the list of
\* holdings unchanged; otherwise it appends the stock at the end and returns
\* True.
C1_AddStock ==
    [][op'.name = "add_stock" =>
        IF \E i \in 1..Len(stocks) : EqualIgnoringCase(stocks[i].symbol, op'.symbol)
        THEN ret' = Some(FALSE) /\ stocks' = stocks
        ELSE ret' = Some(TRUE) /\ stocks' = stocks \o <<op'.stock>>]_vars

\* add_stock of a Stock built from "ab" was refused by a portfolio holding
\* AB, with a price, and C
C1_Witness ==
    /\ op.name = "add_stock"
    /\ op.symbol = <<"a", "b">>
    /\ ret = Some(FALSE)
    /\ Len(stocks) = 2
    /\ stocks[1].symbol = <<"A", "B">>
    /\ stocks[1].current_price = Some(110)
    /\ stocks[1].name # op.stock.name

\* C2: no two holdings have the same symbol, compared case-insensitively.
C2_UniqueSymbols ==
    \A i, j \in 1..Len(stocks) :
        i # j => ~EqualIgnoringCase(stocks[i].symbol, stocks[j].symbol)

\* a refresh has updated two holdings
C2_Witness ==
    /\ op.name = "fetch_and_update_portfolio"
    /\ ret = Some(TRUE)
    /\ Len(stocks) = 2
    /\ stocks[1].current_price # None
    /\ stocks[2].current_price # None

\* C3: remove_stock(symbol) removes the first holding whose symbol equals the
\* upper-cased argument, keeps the order of the others and returns True; when
\* no holding matches it returns False and the list is unchanged.
C3_RemoveStock ==
    [][op'.name = "remove_stock" =>
        LET matches == { i \in 1..Len(stocks) : stocks[i].symbol = Upper(op'.symbol) }
        IN  IF matches = {}
            THEN ret' = Some(FALSE) /\ stocks' = stocks
            ELSE LET first == CHOOSE i \in matches : \A j \in matches : i <= j
                 IN  /\ ret' = Some(TRUE)
                     /\ Len(stocks') = Len(stocks) - 1
                     /\ \A k \in 1..Len(stocks') :
                           stocks'[k] = IF k < first THEN stocks[k] ELSE stocks[k + 1]]_vars

\* remove_stock("c") returned True and left AB before B, AB keeping its price
C3_Witness ==
    /\ op.name = "remove_stock"
    /\ op.symbol = <<"c">>
    /\ ret = Some(TRUE)
    /\ Len(stocks) = 2
    /\ stocks[1].symbol = <<"A", "B">>
    /\ stocks[1].current_price = Some(110)
    /\ stocks[2].symbol = <<"B">>

\* holding `new` is holding `old` after update_price with the price, opening,
\* high, low and volume of the fetched Stock
RefreshedFrom(old, fetched, new) ==
    /\ new.symbol = old.symbol
    /\ new.name = old.name
    /\ new.current_price = fetched.current_price
    /\ new.opening_price = IF fetched.opening_price # None
                           THEN fetched.opening_price ELSE old.opening_price
    /\ new.highest_price = IF fetched.highest_price # None
                           THEN fetched.highest_price ELSE old.highest_price
    /\ new.lowest_price = IF fetched.lowest_price # None
                          THEN fetched.lowest_price ELSE old.lowest_price
    /\ new.volume = IF fetched.volume # None THEN fetched.volume ELSE old.volume
    /\ new.last_update # None
    /\ new.last_update # old.last_update

\* C12: fetch_and_update_portfolio applies update_price, with the fetched
\* current price, opening, high, low and volume, to exactly the holdings whose
\* symbol was fetched successfully, leaves every other holding as it was, and
\* returns True iff at least one holding was updated: False for an empty
\* portfolio and when every fetch fails.
C12_RefreshUpdatesFetched ==
    [][ op'.name = "fetch_and_update_portfolio" =>
          IF pc = "gather"
          THEN LET ok == { i \in 1..Len(stocks) : results[i].t = "val" }
               IN  /\ Len(stocks') = Len(stocks)
                   /\ \A i \in ok :
                         /\ results[i].v.symbol = stocks[i].symbol
                         /\ RefreshedFrom(stocks[i], results[i].v, stocks'[i])
                   /\ \A i \in (1..Len(stocks)) \ ok : stocks'[i] = stocks[i]
                   /\ ret' = Some(ok # {})
          ELSE /\ stocks = <<>>
               /\ stocks' = stocks
               /\ ret' = Some(FALSE)
      ]_vars

\* a refresh of two holdings returned True: the first, never priced, was not
\* fetched and the second was
C12_Witness ==
    /\ op.name = "fetch_and_update_portfolio"
    /\ ret = Some(TRUE)
    /\ Len(stocks) = 2
    /\ stocks[1].current_price = None
    /\ stocks[1].last_update = None
    /\ stocks[2].current_price # None

\* a refresh of a portfolio of one holding returned False: its fetch failed
C12_WitnessAllFail ==
    /\ op.name = "fetch_and_update_portfolio"
    /\ ret = Some(FALSE)
    /\ Len(stocks) = 1

\* C25: while a refresh is in flight no holding is mutated before every fetch
\* task of the batch has an outcome (a Stock, None or an exception): a step
\* taken while a task is pending leaves the holdings as they are, and a step
\* of a fetch task writes the outcome slot of that task only, leaving the
\* holdings, the batch's symbols, the data source and the other tasks' slots
\* unchanged; the holdings change in the one step that follows the gather.
C25_NoMutationBeforeGather ==
    [][ /\ (pc = "gather" /\ \E i \in 1..Len(results) : results[i] = Pending) =>
              stocks' = stocks
        /\ (pc = "gather" /\ pc' = "gather") =>
              /\ stocks' = stocks
              /\ symbols' = symbols
              /\ api' = api
              /\ Len(results') = Len(results)
              /\ \E i \in 1..Len(results) :
                    /\ results[i] = Pending
                    /\ results'[i] # Pending
                    /\ \A j \in (1..Len(results)) \ {i} : results'[j] = results[j]
        /\ (pc = "gather" /\ stocks' # stocks) =>
              /\ \A i \in 1..Len(results) : results[i] # Pending
              /\ pc' = "idle"
              /\ op'.name = "fetch_and_update_portfolio"
      ]_vars

\* a refresh of two holdings in flight: the fetch of the first has returned a
\* Stock, the second is pending, and the first holding still has no price
C25_Witness ==
    /\ pc = "gather"
    /\ Len(stocks) = 2
    /\ results[1].t = "val"
    /\ results[2] = Pending
    /\ stocks[1].current_price = None

\* what the data source's answer gives for a field read under two keys
SourceValue(response, key, fallback, default) ==
    Get(response.d, key, Get(response.d, fallback, default))

\* C30: fetch_and_update_portfolio keeps the number and the order of the
\* holdings and every holding's symbol and name; a holding whose fetch failed
\* keeps every field, last_update included; a holding whose fetch succeeded
\* takes the fetched current_price and keeps its previous opening, high, low
\* or volume where the source's answer has none (a null or a missing value).
C30_RefreshFrame ==
    [][ op'.name = "fetch_and_update_portfolio" =>
          /\ Len(stocks') = Len(stocks)
          /\ \A i \in 1..Len(stocks) :
                /\ stocks'[i].symbol = stocks[i].symbol
                /\ stocks'[i].name = stocks[i].name
                /\ IF results[i].t # "val" THEN stocks'[i] = stocks[i]
                   ELSE LET answer == api[symbols[i]]
                        IN  /\ stocks'[i].current_price =
                                 SourceValue(answer, "currentPrice", "regularMarketPrice", None)
                            /\ stocks'[i].current_price # None
                            /\ SourceValue(answer, "open", "regularMarketOpen", None) = None =>
                                  stocks'[i].opening_price = stocks[i].opening_price
                            /\ SourceValue(answer, "dayHigh", "regularMarketDayHigh", None) = None =>
                                  stocks'[i].highest_price = stocks[i].highest_price
                            /\ SourceValue(answer, "dayLow", "regularMarketDayLow", None) = None =>
                                  stocks'[i].lowest_price = stocks[i].lowest_price
                            /\ SourceValue(answer, "volume", "regularMarketVolume", Some(0)) = None =>
                                  stocks'[i].volume = stocks[i].volume
      ]_vars

\* a refresh replaced the price 110 of the first holding by 4 and kept its
\* low of 90, which the source's answer did not give
C30_Witness ==
    /\ op.name = "fetch_and_update_portfolio"
    /\ ret = Some(TRUE)
    /\ Len(stocks) >= 1
    /\ stocks[1].current_price = Some(4)
    /\ stocks[1].lowest_price = Some(90)

(***************************************************************************)
(* analysis/indicators.py and analysis/statistics.py                       *)
(*                                                                         *)
(* The Close column is a sequence of integer closes (bar 1 is the oldest). *)
(* A float is NaN, an infinity or an exact rational n/d in lowest terms;   *)
(* on the closes, periods and windows used here the IEEE comparisons of    *)
(* the code (RSI against 30 and 70 with period 14, last close against      *)
(* ma * 1.02 and ma * 0.98) have the outcome of the exact comparisons.     *)
(***************************************************************************)
MaxPad == 12
MaxTail == 2
MaxPeriod == 2
MaxWindow == 3

DefaultPeriod == 14
DefaultWindow == 20
Oversold == 30
Overbought == 70

NaN == [t |-> "nan"]
Inf(negative) == [t |-> "inf", neg |-> negative]

RECURSIVE GCD(_, _)
GCD(a, b) == IF b = 0 THEN a ELSE GCD(b, a % b)

\* the float n/d, d # 0
Num(n, d) ==
    LET g == GCD(Abs(n), Abs(d))
        sign == IF d < 0 THEN -1 ELSE 1
    IN  [t |-> "num", n |-> sign * (n \div g), d |-> sign * (d \div g)]

\* the float of an integer
Float(i) == [t |-> "num", n |-> i, d |-> 1]

IsNum(a) == a.t = "num"

IsInf(a) == a.t = "inf"

\* the sign bit of a float that is not NaN
IsNegative(a) == IF IsInf(a) THEN a.neg ELSE a.n < 0

IsZero(a) == IsNum(a) /\ a.n = 0

\* float arithmetic: NaN propagates, inf - inf and 0 * inf are NaN
FAdd(a, b) ==
    IF IsNum(a) /\ IsNum(b) THEN Num(a.n * b.d + b.n * a.d, a.d * b.d)
    ELSE IF a = NaN \/ b = NaN THEN NaN
    ELSE IF IsInf(a) /\ IsInf(b) THEN (IF a.neg = b.neg THEN a ELSE NaN)
    ELSE IF IsInf(a) THEN a
    ELSE b
FNeg(a) ==
    IF IsNum(a) THEN Num(-a.n, a.d)
    ELSE IF IsInf(a) THEN Inf(~a.neg)
    ELSE NaN
FSub(a, b) ==
    IF IsNum(a) /\ IsNum(b) THEN Num(a.n * b.d - b.n * a.d, a.d * b.d)
    ELSE FAdd(a, FNeg(b))
FMul(a, b) ==
    IF IsNum(a) /\ IsNum(b) THEN Num(a.n * b.n, a.d * b.d)
    ELSE IF a = NaN \/ b = NaN THEN NaN
    ELSE IF IsZero(a) \/ IsZero(b) THEN NaN
    ELSE Inf(IsNegative(a) # IsNegative(b))

\* numpy float division: x/0 is an infinity, 0/0 is NaN, no exception
FDiv(a, b) ==
    IF IsNum(a) /\ IsNum(b)
    THEN IF b.n # 0 THEN Num(a.n * b.d, a.d * b.n)
         ELSE IF a.n = 0 THEN NaN
         ELSE Inf(a.n < 0)
    ELSE IF a = NaN \/ b = NaN THEN NaN
    ELSE IF IsInf(a) /\ IsInf(b) THEN NaN
    ELSE IF IsInf(a) THEN Inf(IsNegative(a) # IsNegative(b))
    ELSE Float(0)

\* float comparisons: every comparison with NaN is False
FLt(a, b) ==
    IF IsNum(a) /\ IsNum(b) THEN a.n * b.d < b.n * a.d
    ELSE IF a = NaN \/ b = NaN THEN FALSE
    ELSE IF IsInf(a) THEN a.neg /\ ~(IsInf(b) /\ b.neg)
    ELSE ~b.neg
FGt(a, b) == FLt(b, a)
FEq(a, b) ==
    IF IsNum(a) /\ IsNum(b) THEN a.n * b.d = b.n * a.d
    ELSE IsInf(a) /\ IsInf(b) /\ a.neg = b.neg

\* self.data is None or self.data.empty
NoData(data) == data = None \/ data.v = <<>>

\* Series.diff(): NaN at the first bar
diff(close) ==
    [i \in 1..Len(close) |-> IF i = 1 THEN NaN ELSE Float(close[i] - close[i - 1])]

\* delta.abs().fillna(0): falls counted as gains
GainsOf_absolute(delta) ==
    [i \in 1..Len(delta) |->
        IF FGt(delta[i], Float(0)) THEN delta[i]
        ELSE IF FLt(delta[i], Float(0)) THEN FNeg(delta[i])
        ELSE Float(0)]

\* delta.where(delta > 0, 0)
GainsOf(delta) ==
    [i \in 1..Len(delta) |-> IF FGt(delta[i], Float(0)) THEN delta[i] ELSE Float(0)]

\* -delta.where(delta < 0, 0)
LossesOf(delta) ==
    [i \in 1..Len(delta) |-> FNeg(IF FLt(delta[i], Float(0)) THEN delta[i] ELSE Float(0))]

RECURSIVE FSum(_, _, _)
FSum(series, from, to) ==
    IF from > to THEN Float(0) ELSE FAdd(FSum(series, from, to - 1), series[to])

\* rolling(window).mean() with min_periods = 1: the mean of the bars seen so
\* far while fewer than `window` bars are seen
RollingMean_expanding(series, window) ==
    [i \in 1..Len(series) |->
        LET first == IF i < window THEN 1 ELSE i - window + 1
        IN  FDiv(FSum(series, first, i), Float(i - first + 1))]

\* Series.rolling(window=window).mean(): NaN until `window` bars are seen (and
\* where the window holds a NaN), then the mean of the last `window` bars
RollingMean(series, window) ==
    [i \in 1..Len(series) |->
        IF i < window THEN NaN
        ELSE FDiv(FSum(series, i - window + 1, i), Float(window))]

\* .iloc[-1]
Last(series) == series[Len(series)]

\* calculate_rsi without the `if avg_loss == 0` branch
calculate_rsi_no_zero_guard(data, period) ==
    IF NoData(data) THEN None
    ELSE LET delta == diff(data.v)
             avg_gain == Last(RollingMean(GainsOf(delta), period))
             avg_loss == Last(RollingMean(LossesOf(delta), period))
             rs == FDiv(avg_gain, avg_loss)
         IN  Some(FSub(Float(100), FDiv(Float(100), FAdd(Float(1), rs))))

\* TechnicalIndicators.calculate_rsi: None, or Some(the float returned)
calculate_rsi(data, period) ==
    IF NoData(data) THEN None
    ELSE LET delta == diff(data.v)
             gains == GainsOf(delta)
             losses == LossesOf(delta)
             avg_gain == Last(RollingMean(gains, period))
             avg_loss == Last(RollingMean(losses, period))
         IN  IF FEq(avg_loss, Float(0)) THEN Some(Float(100))
             ELSE LET rs == FDiv(avg_gain, avg_loss)
                  IN  Some(FSub(Float(100), FDiv(Float(100), FAdd(Float(1), rs))))

\* get_simple_signal with `rsi <= 30` and `rsi >= 70`
get_simple_signal_inclusive(data) ==
    LET rsi == calculate_rsi(data, DefaultPeriod)
    IN  IF rsi = None THEN "INCONNU"
        ELSE IF ~FGt(rsi.v, Float(Oversold)) /\ IsNum(rsi.v) THEN "ACHETER"
        ELSE IF ~FLt(rsi.v, Float(Overbought)) /\ IsNum(rsi.v) THEN "VENDRE"
        ELSE "ATTENDRE"

\* TechnicalIndicators.get_simple_signal
get_simple_signal(data) ==
    LET rsi == calculate_rsi(data, DefaultPeriod)
    IN  IF rsi = None THEN "INCONNU"
        ELSE IF FLt(rsi.v, Float(Oversold)) THEN "ACHETER"
        ELSE IF FGt(rsi.v, Float(Overbought)) THEN "VENDRE"
        ELSE "ATTENDRE"

\* self.data['Close'] as floats
CloseColumn(data) == [i \in 1..Len(data.v) |-> Float(data.v[i])]

\* Analyzer.calculate_moving_average: None, or Some(the Series returned)
calculate_moving_average(data, window) ==
    IF NoData(data) THEN None
    ELSE Some(RollingMean(CloseColumn(data), window))

UpFactor == Num(102, 100)
DownFactor == Num(98, 100)

\* calculate_trend comparing with the moving average itself, without the 2 %
\* band
calculate_trend_no_band(data, window) ==
    IF NoData(data) THEN "INCONNU"
    ELSE LET current_price == Last(CloseColumn(data))
             ma == calculate_moving_average(data, window)
         IN  IF ma = None THEN "INCONNU"
             ELSE LET ma_value == Last(ma.v)
                  IN  IF FGt(current_price, ma_value) THEN "HAUSSE"
                      ELSE IF FLt(current_price, ma_value) THEN "BAISSE"
                      ELSE "STABLE"

\* Analyzer.calculate_trend
calculate_trend(data, window) ==
    IF NoData(data) THEN "INCONNU"
    ELSE LET current_price == Last(CloseColumn(data))
             ma == calculate_moving_average(data, window)
         IN  IF ma = None THEN "INCONNU"
             ELSE LET ma_value == Last(ma.v)
                  IN  IF FGt(current_price, FMul(ma_value, UpFactor)) THEN "HAUSSE"
                      ELSE IF FLt(current_price, FMul(ma_value, DownFactor)) THEN "BAISSE"
                      ELSE "STABLE"

(***************************************************************************)
(* An Analyzer and a TechnicalIndicators built on the same data, and the   *)
(* calls of their indicators                                               *)
(***************************************************************************)
Closes == { 10, 13, 17 }

Pad(k, c) == [i \in 1..k |-> c]

Tails == UNION { [1..n -> Closes] : n \in 0..MaxTail }

\* up to MaxPad equal closes followed by up to MaxTail closes
PaddedSeries == { Pad(k, c) \o tail : k \in 0..MaxPad, c \in Closes, tail \in Tails }

\* period + 1 closes rising by one a bar, and the same closes falling
Rising == [i \in 1..(DefaultPeriod + 1) |-> i]
Falling == [i \in 1..(DefaultPeriod + 1) |-> DefaultPeriod + 2 - i]

\* the example of the moving average, a last close exactly 2 % above and 2 %
\* below the two-bar average, period + 1 bars ending in a rise and in a fall,
\* and period + 1 bars rising and falling throughout
ExampleSeries ==
    { <<1, 2, 3, 4, 5>>, <<49, 51>>, <<51, 49>>,
      Pad(DefaultPeriod - 2, 10) \o <<17, 13, 17>>,
      Pad(DefaultPeriod - 2, 17) \o <<10, 13, 10>>,
      Rising, Falling }

DataInputs == {None} \cup { Some(close) : close \in PaddedSeries \cup ExampleSeries }

Periods == (1..MaxPeriod) \cup {DefaultPeriod}
Windows == (1..MaxWindow) \cup {DefaultWindow}

InitAnalysis ==
    /\ self_data \in DataInputs
    /\ connection = NoTables
    /\ stock = StockInit(<<"c">>, AppleName)
    /\ stocks = <<>>
    /\ clock = 0
    /\ op = Idle
    /\ ret = None
    /\ NoBatch

CalculateRsi ==
    /\ \E period \in Periods :
          /\ op' = [name |-> "calculate_rsi", period |-> period]
          /\ ret' = calculate_rsi(self_data, period)
    /\ UNCHANGED <<connection, self_data, stock, stocks, clock, pc, symbols, api, results, order,
                   syncI, syncOut, asyncOut>>

GetSimpleSignal ==
    /\ op' = [name |-> "get_simple_signal"]
    /\ ret' = Some(get_simple_signal(self_data))
    /\ UNCHANGED <<connection, self_data, stock, stocks, clock, pc, symbols, api, results, order,
                   syncI, syncOut, asyncOut>>

CalculateMovingAverage ==
    /\ \E window \in Windows :
          /\ op' = [name |-> "calculate_moving_average", window |-> window]
          /\ ret' = calculate_moving_average(self_data, window)
    /\ UNCHANGED <<connection, self_data, stock, stocks, clock, pc, symbols, api, results, order,
                   syncI, syncOut, asyncOut>>

CalculateTrend ==
    /\ \E window \in Windows :
          /\ op' = [name |-> "calculate_trend", window |-> window]
          /\ ret' = Some(calculate_trend(self_data, window))
    /\ UNCHANGED <<connection, self_data, stock, stocks, clock, pc, symbols, api, results, order,
                   syncI, syncOut, asyncOut>>

NextAnalysis ==
    \/ CalculateRsi
    \/ GetSimpleSignal
    \/ CalculateMovingAverage
    \/ CalculateTrend

SpecAnalysis == InitAnalysis /\ [][NextAnalysis]_vars

IsFlat(close) == \A i \in 1..Len(close) : close[i] = close[1]

\* C14 as stated: calculate_rsi with period 14 returns 100 on every non-empty
\* series of equal closes, of any length.
C14_FlatAlways100 ==
    ( /\ op.name = "calculate_rsi"
      /\ op.period = DefaultPeriod
      /\ ~NoData(self_data)
      /\ IsFlat(self_data.v) ) => ret = Some(Float(100))

\* C14, amended: on a series of equal closes calculate_rsi(period) returns 100
\* when the series has at least `period` bars (the average loss is 0, so the
\* avg_loss == 0 branch is taken although the average gain is 0 too); on a
\* shorter non-empty series the rolling averages are NaN and it returns NaN.
C14_FlatLongEnough100 ==
    ( /\ op.name = "calculate_rsi"
      /\ ~NoData(self_data)
      /\ IsFlat(self_data.v) ) =>
        IF Len(self_data.v) >= op.period
        THEN ret = Some(Float(100))
        ELSE ret = Some(NaN)

\* calculate_rsi() returned 100 on at least 14 equal closes
C14_Witness ==
    /\ op.name = "calculate_rsi"
    /\ op.period = DefaultPeriod
    /\ ~NoData(self_data)
    /\ IsFlat(self_data.v)
    /\ Len(self_data.v) >= DefaultPeriod
    /\ ret = Some(Float(100))

\* C15 as stated: on a non-empty series calculate_rsi(period) reports no
\* value (None or NaN) with fewer than period + 1 bars and returns a number
\* with at least period + 1 bars.
C15_DefinedFromPeriodPlusOne ==
    (op.name = "calculate_rsi" /\ ~NoData(self_data)) =>
        IF Len(self_data.v) < op.period + 1
        THEN ret \in { None, Some(NaN) }
        ELSE ret.t = "val" /\ IsNum(ret.v)

\* what the code does: on a non-empty series calculate_rsi(period) returns
\* NaN with fewer than `period` bars and a number from `period` bars on
RsiDefinedFromPeriodBars ==
    (op.name = "calculate_rsi" /\ ~NoData(self_data)) =>
        IF Len(self_data.v) < op.period
        THEN ret = Some(NaN)
        ELSE ret.t = "val" /\ IsNum(ret.v)

\* calculate_rsi() returned a number on exactly 14 bars
RsiDefinedOnPeriodBars ==
    /\ op.name = "calculate_rsi"
    /\ op.period = DefaultPeriod
    /\ self_data # None
    /\ Len(self_data.v) = DefaultPeriod
    /\ ret = Some(Float(30))

RECURSIVE IntSum(_, _, _)
IntSum(close, from, to) ==
    IF from > to THEN 0 ELSE IntSum(close, from, to - 1) + close[to]

\* the rises (sign = 1) or the falls (sign = -1) between consecutive bars over
\* the last `period` bars, summed
RECURSIVE WindowMoves(_, _, _, _)
WindowMoves(close, sign, period, i) ==
    IF i > Len(close) THEN 0
    ELSE LET move == IF i = 1 THEN 0 ELSE sign * (close[i] - close[i - 1])
         IN  (IF i > Len(close) - period /\ move > 0 THEN move ELSE 0)
             + WindowMoves(close, sign, period, i + 1)

\* C16: when the 14-period RSI is a number (100 when the falls of the window
\* sum to 0, else 100 * rises / (rises + falls)), get_simple_signal returns
\* ACHETER iff RSI < 30, VENDRE iff RSI > 70 and ATTENDRE otherwise, so that
\* an RSI of exactly 30 or 70 gives ATTENDRE; the call takes no argument.
C16_SignalThresholds ==
    ( /\ op.name = "get_simple_signal"
      /\ ~NoData(self_data)
      /\ Len(self_data.v) >= DefaultPeriod ) =>
        LET rises == WindowMoves(self_data.v, 1, DefaultPeriod, 1)
            falls == WindowMoves(self_data.v, -1, DefaultPeriod, 1)
            below == falls # 0 /\ 100 * rises < Oversold * (rises + falls)
            above == falls = 0 \/ 100 * rises > Overbought * (rises + falls)
        IN  /\ op = [name |-> "get_simple_signal"]
            /\ ret = Some("ACHETER") <=> below
            /\ ret = Some("VENDRE") <=> above
            /\ ret = Some("ATTENDRE") <=> ~below /\ ~above

\* get_simple_signal returned ATTENDRE on an RSI of exactly 30: rises of 3 and
\* falls of 7 in the window
C16_Witness ==
    /\ op.name = "get_simple_signal"
    /\ ~NoData(self_data)
    /\ Len(self_data.v) >= DefaultPeriod
    /\ WindowMoves(self_data.v, 1, DefaultPeriod, 1) = 3
    /\ WindowMoves(self_data.v, -1, DefaultPeriod, 1) = 7
    /\ calculate_rsi(self_data, DefaultPeriod) = Some(Float(Oversold))
    /\ ret = Some("ATTENDRE")

\* get_simple_signal returned ACHETER on an RSI strictly between 0 and 30
C16_WitnessBuy ==
    /\ op.name = "get_simple_signal"
    /\ ~NoData(self_data)
    /\ Len(self_data.v) >= DefaultPeriod
    /\ WindowMoves(self_data.v, 1, DefaultPeriod, 1) > 0
    /\ ret = Some("ACHETER")

\* get_simple_signal returned VENDRE on an RSI strictly between 70 and 100
C16_WitnessSell ==
    /\ op.name = "get_simple_signal"
    /\ ~NoData(self_data)
    /\ Len(self_data.v) >= DefaultPeriod
    /\ WindowMoves(self_data.v, -1, DefaultPeriod, 1) > 0
    /\ ret = Some("VENDRE")

\* C17 as stated: get_simple_signal returns INCONNU whenever the 14-period
\* RSI is undefined: without data, on empty data and on every non-empty
\* series of fewer than 14 bars.
C17_UnknownWhenRsiUndefined ==
    ( /\ op.name = "get_simple_signal"
      /\ (NoData(self_data) \/ Len(self_data.v) < DefaultPeriod) ) =>
        ret = Some("INCONNU")

\* what the code does: INCONNU without data and on empty data, ATTENDRE on
\* every non-empty series of fewer than 14 bars, whose RSI is NaN
SignalOnShortSeries ==
    ( /\ op.name = "get_simple_signal"
      /\ (NoData(self_data) \/ Len(self_data.v) < DefaultPeriod) ) =>
        /\ calculate_rsi(self_data, DefaultPeriod) \in { None, Some(NaN) }
        /\ ret = IF NoData(self_data) THEN Some("INCONNU") ELSE Some("ATTENDRE")

\* C18: when the series has at least `window` bars, so that the moving
\* average ma at the last bar is the mean of the last `window` closes,
\* calculate_trend(window) returns HAUSSE iff last close > ma * 1.02, BAISSE
\* iff last close < ma * 0.98 and STABLE otherwise: a last close exactly at
\* ma * 1.02 or ma * 0.98 is STABLE, and exactly one of the three labels is
\* returned.
C18_TrendBand ==
    ( /\ op.name = "calculate_trend"
      /\ ~NoData(self_data)
      /\ Len(self_data.v) >= op.window ) =>
        LET close == self_data.v
            n == Len(close)
            total == IntSum(close, n - op.window + 1, n)
            up == 100 * op.window * close[n] > 102 * total
            down == 100 * op.window * close[n] < 98 * total
        IN  /\ ret.v \in { "HAUSSE", "BAISSE", "STABLE" }
            /\ ret = Some("HAUSSE") <=> up
            /\ ret = Some("BAISSE") <=> down
            /\ ret = Some("STABLE") <=> ~up /\ ~down

\* calculate_trend(2) returned STABLE on closes 49, 51: the last close is
\* exactly 1.02 times the average 50
C18_Witness ==
    /\ op = [name |-> "calculate_trend", window |-> 2]
    /\ self_data = Some(<<49, 51>>)
    /\ ret = Some("STABLE")

\* calculate_trend returned HAUSSE on a series of at least `window` bars
C18_WitnessUp ==
    /\ op.name = "calculate_trend"
    /\ ~NoData(self_data)
    /\ Len(self_data.v) >= op.window
    /\ ret = Some("HAUSSE")

\* calculate_trend returned BAISSE on a series of at least `window` bars
C18_WitnessDown ==
    /\ op.name = "calculate_trend"
    /\ ~NoData(self_data)
    /\ Len(self_data.v) >= op.window
    /\ ret = Some("BAISSE")

\* C19 as stated: calculate_trend(window) returns INCONNU whenever the moving
\* average at the last bar is undefined: without data, on empty data and on
\* every non-empty series of fewer than `window` bars.
C19_UnknownWhenAverageUndefined ==
    ( /\ op.name = "calculate_trend"
      /\ (NoData(self_data) \/ Len(self_data.v) < op.window) ) =>
        ret = Some("INCONNU")

\* what the code does: INCONNU without data and on empty data, STABLE on
\* every non-empty series of fewer than `window` bars, whose moving average
\* at the last bar is NaN
TrendOnShortSeries ==
    ( /\ op.name = "calculate_trend"
      /\ (NoData(self_data) \/ Len(self_data.v) < op.window) ) =>
        IF NoData(self_data) THEN ret = Some("INCONNU")
        ELSE /\ Last(calculate_moving_average(self_data, op.window).v) = NaN
             /\ ret = Some("STABLE")

\* C20: calculate_moving_average(window) returns None without data and on
\* empty data; otherwise it returns one entry per bar, NaN at each of the
\* first window - 1 bars and, at every later bar, the arithmetic mean of the
\* `window` closes that end at that bar.
C20_MovingAverage ==
    op.name = "calculate_moving_average" =>
        IF NoData(self_data) THEN ret = None
        ELSE LET close == self_data.v
             IN  /\ ret.t = "val"
                 /\ Len(ret.v) = Len(close)
                 /\ \A i \in 1..Len(close) :
                       IF i < op.window THEN ret.v[i] = NaN
                       ELSE /\ IsNum(ret.v[i])
                            /\ ret.v[i].n * op.window =
                                 ret.v[i].d * IntSum(close, i - op.window + 1, i)

\* calculate_moving_average(3) on closes 1, 2, 3, 4, 5 returned NaN, NaN, 2, 3
\* and 4.0 at the last bar
C20_Witness ==
    /\ op = [name |-> "calculate_moving_average", window |-> 3]
    /\ self_data = Some(<<1, 2, 3, 4, 5>>)
    /\ ret = Some(<<NaN, NaN, Float(2), Float(3), Float(4)>>)

\* calculate_moving_average returned None on empty data
C20_WitnessEmpty ==
    /\ op.name = "calculate_moving_average"
    /\ self_data = Some(<<>>)
    /\ ret = None

StrictlyDecreasing(close) == \A i \in 2..Len(close) : close[i] < close[i - 1]
StrictlyIncreasing(close) == \A i \in 2..Len(close) : close[i] > close[i - 1]

\* C28: on a strictly decreasing series with more than `period` bars
\* calculate_rsi(period) returns 0 and get_simple_signal (period 14) returns
\* ACHETER; on a strictly increasing one they return 100 and VENDRE.
C28_MonotoneSeries ==
    /\ (op.name = "calculate_rsi" /\ ~NoData(self_data)
           /\ Len(self_data.v) > op.period) =>
          /\ StrictlyDecreasing(self_data.v) => ret = Some(Float(0))
          /\ StrictlyIncreasing(self_data.v) => ret = Some(Float(100))
    /\ (op.name = "get_simple_signal" /\ ~NoData(self_data)
           /\ Len(self_data.v) > DefaultPeriod) =>
          /\ StrictlyDecreasing(self_data.v) => ret = Some("ACHETER")
          /\ StrictlyIncreasing(self_data.v) => ret = Some("VENDRE")

\* get_simple_signal() returned ACHETER on 15 falling closes
C28_Witness ==
    /\ op.name = "get_simple_signal"
    /\ self_data = Some(Falling)
    /\ StrictlyDecreasing(self_data.v)
    /\ ret = Some("ACHETER")

\* calculate_rsi(2) returned 0 on three falling closes
C28_RsiZeroOnFall ==
    /\ op.name = "calculate_rsi"
    /\ op.period = 2
    /\ self_data = Some(<<17, 13, 10>>)
    /\ ret = Some(Float(0))

(***************************************************************************)
(* database/db_manager.py                                                  *)
(*                                                                         *)
(* The tables are those of _create_tables_manually.  A table is the        *)
(* sequence of its rows, a row's id being its position (AUTOINCREMENT, no  *)
(* row is ever deleted).  A date is a day number.                          *)
(***************************************************************************)
MaxRows == 3

\* the database after DatabaseManager.__init__ on a new file
EmptyTables == [stocks |-> <<>>, prices |-> <<>>]

\* DatabaseManager.get_stock_id
get_stock_id(conn, symbol) ==
    LET found == { id \in 1..Len(conn.stocks) : conn.stocks[id].symbol = Upper(symbol) }
    IN  IF found = {} THEN None ELSE Some(CHOOSE id \in found : TRUE)

\* DatabaseManager.insert_stock: UNIQUE(symbol) raises IntegrityError, and
\* the id of the row already there is returned
insert_stock(conn, symbol, name) ==
    IF get_stock_id(conn, symbol) # None
    THEN [conn |-> conn, ret |-> get_stock_id(conn, symbol)]
    ELSE [conn |-> [conn EXCEPT !.stocks = Append(@, [symbol |-> Upper(symbol),
                                                       name |-> name])],
          ret |-> Some(Len(conn.stocks) + 1)]

\* the columns declared NOT NULL all have a value
NotNull(row) ==
    /\ row.opening_price # None
    /\ row.closing_price # None
    /\ row.highest_price # None
    /\ row.lowest_price # None
    /\ row.volume # None

\* UNIQUE(stock_id, date): the rows that forbid the insertion of `row`
SameStockDate(conn, row) ==
    { k \in 1..Len(conn.prices) :
        conn.prices[k].stock_id = row.stock_id /\ conn.prices[k].date = row.date }

\* insert_stock_price with INSERT OR REPLACE: the row already stored for the
\* stock and the date is overwritten
insert_stock_price_replaces(conn, symbol, date_value, bar, sqlite_error) ==
    LET stock_id == get_stock_id(conn, symbol)
    IN  IF stock_id = None THEN [conn |-> conn, ret |-> FALSE]
        ELSE LET row == [stock_id |-> stock_id.v, date |-> date_value,
                         opening_price |-> bar[1], closing_price |-> bar[2],
                         highest_price |-> bar[3], lowest_price |-> bar[4],
                         volume |-> bar[5]]
                 same == SameStockDate(conn, row)
             IN  IF sqlite_error \/ ~NotNull(row) THEN [conn |-> conn, ret |-> FALSE]
                 ELSE IF same # {}
                      THEN [conn |-> [conn EXCEPT !.prices[CHOOSE k \in same : TRUE] = row],
                            ret |-> TRUE]
                      ELSE [conn |-> [conn EXCEPT !.prices = Append(@, row)],
                            ret |-> TRUE]

\* DatabaseManager.insert_stock_price; sqlite_error: the INSERT or the commit
\* fails with an sqlite3.Error other than IntegrityError
insert_stock_price(conn, symbol, date_value, bar, sqlite_error) ==
    LET stock_id == get_stock_id(conn, symbol)
    IN  IF stock_id = None THEN [conn |-> conn, ret |-> FALSE]
        ELSE LET row == [stock_id |-> stock_id.v, date |-> date_value,
                         opening_price |-> bar[1], closing_price |-> bar[2],
                         highest_price |-> bar[3], lowest_price |-> bar[4],
                         volume |-> bar[5]]
             IN  IF sqlite_error THEN [conn |-> conn, ret |-> FALSE]
                 ELSE IF ~NotNull(row) \/ SameStockDate(conn, row) # {}
                      THEN [conn |-> conn, ret |-> FALSE]
                      ELSE [conn |-> [conn EXCEPT !.prices = Append(@, row)],
                            ret |-> TRUE]

DbSymbols == { <<"a", "b">>, <<"A", "B">>, <<"c">> }
Dates == { 1, 2 }

\* (opening, closing, high, low, volume) of a bar
Bars ==
    { <<Some(100), Some(110), Some(120), Some(90), Some(1000)>>,
      <<Some(3), Some(4), Some(130), Some(90), Some(1000)>>,
      <<None, Some(110), None, None, None>> }

InitDb ==
    /\ connection = EmptyTables
    /\ self_data = None
    /\ stock = StockInit(<<"c">>, AppleName)
    /\ stocks = <<>>
    /\ clock = 0
    /\ op = Idle
    /\ ret = None
    /\ NoBatch

InsertStock ==
    /\ \E symbol \in DbSymbols :
          LET r == insert_stock(connection, symbol, AppleName)
          IN  /\ connection' = r.conn
              /\ op' = [name |-> "insert_stock", symbol |-> symbol]
              /\ ret' = r.ret
    /\ UNCHANGED <<self_data, stock, stocks, clock, pc, symbols, api, results, order,
                   syncI, syncOut, asyncOut>>

InsertStockPrice ==
    /\ \E symbol \in DbSymbols, date_value \in Dates, bar \in Bars,
          sqlite_error \in BOOLEAN :
          LET r == insert_stock_price(connection, symbol, date_value, bar, sqlite_error)
          IN  /\ Len(r.conn.prices) <= MaxRows
              /\ connection' = r.conn
              /\ op' = [name |-> "insert_stock_price", symbol |-> symbol,
                        date |-> date_value, bar |-> bar]
              /\ ret' = Some(r.ret)
    /\ UNCHANGED <<self_data, stock, stocks, clock, pc, symbols, api, results, order,
                   syncI, syncOut, asyncOut>>

NextDb == InsertStock \/ InsertStockPrice

SpecDb == InitDb /\ [][NextDb]_vars

\* the stored bars of a symbol on a date
StoredBars(conn, symbol, date_value) ==
    { k \in 1..Len(conn.prices) :
        /\ get_stock_id(conn, symbol) # None
        /\ conn.prices[k].stock_id = get_stock_id(conn, symbol).v
        /\ conn.prices[k].date = date_value }

\* C24: after any sequence of insert_stock_price calls at most one bar is
\* stored for a (symbol, date) pair; an insertion for a pair that already has
\* a bar returns False and leaves the tables as they were, and so does an
\* insertion for a symbol that was never registered.
C24_OneBarPerSymbolDate ==
    /\ [](\A symbol \in DbSymbols, date_value \in Dates :
             Cardinality(StoredBars(connection, symbol, date_value)) <= 1)
    /\ [][op'.name = "insert_stock_price" =>
             /\ StoredBars(connection, op'.symbol, op'.date) # {}
                   => ret' = Some(FALSE) /\ connection' = connection
             /\ get_stock_id(connection, op'.symbol) = None
                   => ret' = Some(FALSE) /\ connection' = connection
                      /\ connection'.prices = connection.prices]_vars

\* a second bar for a stored (symbol, date) pair was refused and the first
\* bar is still the stored one
C24_Witness ==
    /\ op.name = "insert_stock_price"
    /\ ret = Some(FALSE)
    /\ \E k \in StoredBars(connection, op.symbol, op.date) :
          /\ connection.prices[k].closing_price = Some(110)
          /\ op.bar[2] = Some(4)

(***************************************************************************)
(* analysis/statistics.py and analysis/indicators.py on short series:      *)
(* calculate_daily_return, calculate_volatility, calculate_price_change    *)
(***************************************************************************)
MaxBars == 3

\* Series.pct_change(): close / close.shift(1) - 1, NaN at the first bar
pct_change(close) ==
    [i \in 1..Len(close) |->
        IF i = 1 THEN NaN
        ELSE FSub(FDiv(Float(close[i]), Float(close[i - 1])), Float(1))]

\* Analyzer.calculate_daily_return: None, or Some(the Series returned)
calculate_daily_return(data) ==
    IF NoData(data) THEN None
    ELSE LET change == pct_change(data.v)
         IN  Some([i \in 1..Len(change) |-> FMul(change[i], Float(100))])

\* the square root of a variance: of NaN it is NaN, of a number x >= 0 it is
\* kept as the root of x
Sqrt(x) == IF IsNum(x) THEN [t |-> "sqrt", of |-> x] ELSE x

RECURSIVE SquaredDeviations(_, _, _)
\* the sum of (avg - series[i]) ** 2 over the entries up to i that are not NaN
SquaredDeviations(series, avg, i) ==
    IF i = 0 THEN Float(0)
    ELSE IF series[i] = NaN THEN SquaredDeviations(series, avg, i - 1)
    ELSE LET deviation == FSub(avg, series[i])
         IN  FAdd(SquaredDeviations(series, avg, i - 1), FMul(deviation, deviation))

RECURSIVE SumSkipNaN(_, _)
SumSkipNaN(series, i) ==
    IF i = 0 THEN Float(0)
    ELSE IF series[i] = NaN THEN SumSkipNaN(series, i - 1)
    ELSE FAdd(SumSkipNaN(series, i - 1), series[i])

\* Series.std(ddof): NaN entries are skipped; NaN unless more than ddof
\* entries are left
StdDdof(series, ddof) ==
    LET count == Cardinality({ i \in 1..Len(series) : series[i] # NaN })
    IN  IF count - ddof <= 0 THEN NaN
        ELSE LET avg == FDiv(SumSkipNaN(series, Len(series)), Float(count))
             IN  Sqrt(FDiv(SquaredDeviations(series, avg, Len(series)),
                           Float(count - ddof)))

\* the population standard deviation, std(ddof=0)
std_population(series) == StdDdof(series, 0)

\* Series.std(): the sample standard deviation (ddof = 1)
std(series) == StdDdof(series, 1)

\* Analyzer.calculate_volatility: None, or Some(the float returned)
calculate_volatility(data) ==
    LET returns == calculate_daily_return(data)
    IN  IF returns = None THEN None ELSE Some(std(returns.v))

\* calculate_price_change with the percentage taken on the last close
calculate_price_change_on_last(data) ==
    IF NoData(data) THEN Dict({})
    ELSE LET first_price == Float(data.v[1])
             last_price == Last(CloseColumn(data))
             change == FSub(last_price, first_price)
         IN  Dict({ <<"prix_debut", first_price>>, <<"prix_fin", last_price>>,
                    <<"variation", change>>,
                    <<"variation_pct", FMul(FDiv(change, last_price), Float(100))>> })

\* TechnicalIndicators.calculate_price_change; Dict({}) is the empty dict
calculate_price_change(data) ==
    IF NoData(data) THEN Dict({})
    ELSE LET first_price == Float(data.v[1])
             last_price == Last(CloseColumn(data))
             change == FSub(last_price, first_price)
             change_pct == FMul(FDiv(change, first_price), Float(100))
         IN  Dict({ <<"prix_debut", first_price>>, <<"prix_fin", last_price>>,
                    <<"variation", change>>, <<"variation_pct", change_pct>> })

ShortCloses == { 0, 50, 100, 200 }

\* every series of up to MaxBars closes, and the example of the price change
ShortInputs ==
    {None} \cup { Some(close) : close \in
                    UNION { [1..n -> ShortCloses] : n \in 0..MaxBars }
                    \cup { <<100, 90, 120>> } }

InitSeries ==
    /\ self_data \in ShortInputs
    /\ connection = NoTables
    /\ stock = StockInit(<<"c">>, AppleName)
    /\ stocks = <<>>
    /\ clock = 0
    /\ op = Idle
    /\ ret = None
    /\ NoBatch

CalculateDailyReturn ==
    /\ op' = [name |-> "calculate_daily_return"]
    /\ ret' = calculate_daily_return(self_data)
    /\ UNCHANGED <<connection, self_data, stock, stocks, clock, pc, symbols, api, results, order,
                   syncI, syncOut, asyncOut>>

CalculateVolatility ==
    /\ op' = [name |-> "calculate_volatility"]
    /\ ret' = calculate_volatility(self_data)
    /\ UNCHANGED <<connection, self_data, stock, stocks, clock, pc, symbols, api, results, order,
                   syncI, syncOut, asyncOut>>

CalculatePriceChange ==
    /\ op' = [name |-> "calculate_price_change"]
    /\ ret' = calculate_price_change(self_data)
    /\ UNCHANGED <<connection, self_data, stock, stocks, clock, pc, symbols, api, results, order,
                   syncI, syncOut, asyncOut>>

NextSeries ==
    \/ CalculateDailyReturn
    \/ CalculateVolatility
    \/ CalculatePriceChange

SpecSeries == InitSeries /\ [][NextSeries]_vars

PriceChangeKeys == { "prix_debut", "prix_fin", "variation", "variation_pct" }

\* C22: calculate_price_change returns the empty dict without data and on
\* empty data; on a non-empty series it returns the first close, the last
\* close, their difference and, when the first close is not 0, the
\* difference as a percentage of the first close (percent * first = 100 *
\* change), whatever the closes in between.
C22_PriceChange ==
    op.name = "calculate_price_change" =>
        IF NoData(self_data) THEN ret = Dict({})
        ELSE LET first == self_data.v[1]
                 last == self_data.v[Len(self_data.v)]
                 pct == Get(ret.d, "variation_pct", None)
             IN  /\ { p[1] : p \in ret.d } = PriceChangeKeys
                 /\ Cardinality(ret.d) = 4
                 /\ Get(ret.d, "prix_debut", None) = Float(first)
                 /\ Get(ret.d, "prix_fin", None) = Float(last)
                 /\ Get(ret.d, "variation", None) = Float(last - first)
                 /\ first # 0 => IsNum(pct) /\ pct.n * first = 100 * (last - first) * pct.d

\* calculate_price_change() on closes 100, 90, 120 returned start 100, end
\* 120, change 20 and percent 20.0
C22_Witness ==
    /\ op.name = "calculate_price_change"
    /\ self_data = Some(<<100, 90, 120>>)
    /\ ret = Dict({ <<"prix_debut", Float(100)>>, <<"prix_fin", Float(120)>>,
                    <<"variation", Float(20)>>, <<"variation_pct", Float(20)>> })

\* C27: on a non-empty series whose first close is 0 calculate_price_change
\* gives a percent change that is a number or None, never an infinity or NaN.
C27_ZeroStartGuarded ==
    ( /\ op.name = "calculate_price_change"
      /\ ~NoData(self_data)
      /\ self_data.v[1] = 0 ) =>
        LET pct == Get(ret.d, "variation_pct", None)
        IN  pct = None \/ IsNum(pct)

\* what the code does on a first close of 0: the percent change is +inf when
\* the last close is positive and NaN when the last close is 0 too
PriceChangeOnZeroStart ==
    ( /\ op.name = "calculate_price_change"
      /\ ~NoData(self_data)
      /\ self_data.v[1] = 0 ) =>
        Get(ret.d, "variation_pct", None) =
            IF self_data.v[Len(self_data.v)] > 0 THEN Inf(FALSE) ELSE NaN

\* calculate_price_change() on closes 0, 50 returned the percent change +inf
PriceChangeInfinite ==
    /\ op.name = "calculate_price_change"
    /\ self_data = Some(<<0, 50>>)
    /\ Get(ret.d, "variation_pct", None) = Inf(FALSE)

\* the daily return of bar t >= 2 as the claim writes it
DailyReturn(close, t) == FDiv(Float(100 * (close[t] - close[t - 1])), Float(close[t - 1]))

RECURSIVE ReturnSum(_, _)
\* the sum of the daily returns of bars 2..t
ReturnSum(close, t) ==
    IF t < 2 THEN Float(0) ELSE FAdd(ReturnSum(close, t - 1), DailyReturn(close, t))

RECURSIVE ReturnSquares(_, _)
\* the sum of the squares of the daily returns of bars 2..t
ReturnSquares(close, t) ==
    IF t < 2 THEN Float(0)
    ELSE FAdd(ReturnSquares(close, t - 1),
              FMul(DailyReturn(close, t), DailyReturn(close, t)))

\* the sample variance of the m = Len(close) - 1 daily returns, m >= 2:
\* (sum of squares - (sum)^2 / m) / (m - 1)
SampleVariance(close) ==
    LET m == Len(close) - 1
        total == ReturnSum(close, Len(close))
    IN  FDiv(FSub(ReturnSquares(close, Len(close)), FDiv(FMul(total, total), Float(m))),
             Float(m - 1))

\* no close that a return is divided by is 0
NoZeroBase(close) == \A t \in 1..(Len(close) - 1) : close[t] # 0

\* some return is infinite: a close of 0 followed by another close
InfiniteReturn(close) == \E t \in 1..(Len(close) - 1) : close[t] = 0 /\ close[t + 1] # 0

VolatilityUndefinedOnTwoBars ==
    /\ op.name = "calculate_volatility"
    /\ self_data = Some(<<100, 200>>)
    /\ ret = Some(NaN)
====
